---- MODULE Spec2Model ----
(***************************************************************************)
(* A model of nai-llm: the archive generation pipeline (llm/generate.py,   *)
(* llm/utils/marsgen.py, llm/utils/generate_data_model.py), the file-set   *)
(* validator of llm/download.py, the generation-parameter environment      *)
(* (llm/utils/tsutils.py) and the inference run (llm/torchserve_run.py,    *)
(* llm/utils/inference_utils.py).                                          *)
(*                                                                         *)
(* Python strings are sequences of atoms.  An atom is a piece of text that *)
(* no pattern of the program can split: a model name ("gpt2"), one         *)
(* character of a revision ("e"), an extension (".safetensors"), a         *)
(* newline ("\n").  None is a sequence of its own, so that `is None` and   *)
(* truthiness (`not x`) stay distinct, as they are in Python.              *)
(***************************************************************************)
EXTENDS Integers, Sequences, FiniteSets, TLC

VARIABLES
    \* ---- os.environ and set_model_params (tsutils.py) ----
    environ,        \* the NAI_* part of os.environ: a function on the names present
    configured,     \* the model name of the last set_model_params call, or None
    \* ---- the file-set validator (download.py) ----
    local_files,    \* get_all_files_in_directory(model_path), a list
    repo_files,     \* HfApi.list_repo_files(...), a list
    verdict,        \* what check_if_model_files_exist returned, or "none"
    \* ---- one process running generate.py run_script, and its file system ----
    params,         \* the argparse.Namespace given to run_script
    HF_TOKEN,       \* os.environ.get("HF_TOKEN"): None when unset
    gen_model,      \* the GenerateDataModel object
    model_path,     \* the model_path directory: "missing", or "dir"
    model_files,    \* the relative paths of the files under model_path
    mar_output,     \* the mar_output directory: "missing", or "dir"
    store,          \* the files of mar_output: file name -> content
    tmp_dirs,       \* the directories of mar_output: name -> (file name -> content)
    pc,             \* where run_script is
    exit_code,      \* the exit status of the run: -1 while it runs
    exit_at,        \* the check that ended the run, "" if none did
    raised,         \* what run_script raised: "", "SystemExit" or an exception
    tmp_dir,        \* the staging directory this run created, or None
    monitor,        \* the progress thread: "none", "running", "stopped"
    archiver,       \* [invoked, status, version]: the archiver call of this run
    hub_called,     \* whether this run called the remote hub
    download_called,\* whether this run called snapshot_download
    fs0,            \* the file system as it was when this run started
    run,            \* the number of this run on the file system
    \* ---- one process running torchserve_run.py, and the server ----
    ts_params,      \* the argparse.Namespace given to torchserve_run
    ts_pc,          \* where torchserve_run is
    server,         \* TorchServe: "down" or "up"
    gen_folder,     \* utils/{gen_folder_name}: "absent", "present", "logs"
    ts_log,         \* the server operations invoked so far, in order
    ts_raised,      \* what was raised inside the try: "" if nothing
    ts_exit,        \* the exit status of the process: -1 while it runs
    inferred,       \* the number of input files inferred on
    ts_fs,          \* the model store and the input folder the run finds
    ts_sent,        \* the input files posted for inference, in order
    \* ---- calls of get_mar_name (marsgen.py) ----
    mar_args,       \* the arguments get_mar_name is called with
    mar_names,      \* what the calls made so far returned, in order
    \* ---- one LLMHandler object in a TorchServe worker (handler.py) ----
    hd_pc,          \* where the worker is in handle(): the next method it calls
    hd_batch,       \* the batch of requests the worker was given
    hd_request,     \* self.request: request_list, request_ids, request_type
    hd_data,        \* what the method before returned: the texts, in order
    hd_responses,   \* what postprocess returned for the batch
    hd_handled,     \* the number of batches the object has handled
    \* ---- concurrent processes running generate.py on one mar_output ----
    cc_pc,          \* where each process is in run_script
    cc_gm,          \* the model_name and mar_name of each process's gen_model
    cc_tmp_dir,     \* the staging directory each process created, or None
    cc_exit,        \* the exit status of each process: -1 while it runs
    cc_log,         \* the checks passed, archiver exits and moves, in order
    \* ---- generate.py and torchserve_run.py naming one archive ----
    lk_models,      \* model_config.json as both tools read it
    lk_args,        \* the model name and the revision both tools are given
    lk_mar,         \* the archive file generate.py stores, None before it ran
    lk_path,        \* the archive file torchserve_run.py looks up, None before
    \* ---- generate.py downloading one repository ----
    ig_listing,     \* HfApi.list_repo_files(...) of the repository
    ig_pc,          \* where run_download is: "start" or "downloaded"
    ig_patterns,    \* what get_ignore_pattern_list returned
    ig_files,       \* the files snapshot_download wrote into model_path
    \* ---- download.py: a download run, then a skip-download run ----
    rt_downloaded,  \* whether the download run has filled model_path
    \* ---- tsutils.py set_config_properties ----
    cf_model,       \* the catalog entry of data_model.model_name, or None
    cf_template,    \* the template config.properties: its blocks, in order
    cf_config,      \* {gen_folder}/config.properties, None while missing
    cf_raised,      \* what set_config_properties raised: "" if nothing
    \* ---- GenerateDataModel and InferenceDataModel objects of one process ----
    ob_heap,        \* the RepoInfo, MarUtils and TorchserveStartData objects
    ob_objects,     \* the data model objects built so far, in order
    ob_written,     \* what was last written through each of them
    \* ---- marsgen.py: generate_mars and its progress thread ----
    mn_main,        \* where generate_mars is
    mn_pc,          \* where monitor_marfile_size is
    mn_stop,        \* stop_monitoring.is_set()
    mn_file,        \* whether the archiver's .mar file exists
    mn_size,        \* current_file_size: "unbound" until assigned
    mn_error        \* the exception that ended the thread: "" if none

envVars == <<environ, configured>>
cmpVars == <<local_files, repo_files, verdict>>
fsVars == <<model_path, model_files, mar_output, store, tmp_dirs>>
procVars == <<gen_model, pc, exit_code, exit_at, raised, tmp_dir, monitor,
              archiver, hub_called, download_called>>
genVars == <<params, HF_TOKEN, gen_model, model_path, model_files, mar_output,
             store, tmp_dirs, pc, exit_code, exit_at, raised, tmp_dir, monitor,
             archiver, hub_called, download_called, fs0, run>>
tsVars == <<ts_params, ts_pc, server, gen_folder, ts_log, ts_raised, ts_exit,
            inferred, ts_fs, ts_sent>>
nmVars == <<mar_args, mar_names>>
hdVars == <<hd_pc, hd_batch, hd_request, hd_data, hd_responses, hd_handled>>
ccVars == <<cc_pc, cc_gm, cc_tmp_dir, cc_exit, cc_log>>
lkVars == <<lk_models, lk_args, lk_mar, lk_path>>
\* the state of the library functions and objects exercised on their own
igVars == <<ig_listing, ig_pc, ig_patterns, ig_files>>
rtVars == <<rt_downloaded>>
cfVars == <<cf_model, cf_template, cf_config, cf_raised>>
obVars == <<ob_heap, ob_objects, ob_written>>
mnVars == <<mn_main, mn_pc, mn_stop, mn_file, mn_size, mn_error>>
libVars == <<lkVars, igVars, rtVars, cfVars, obVars, mnVars>>
\* the state of the programs run as a whole
appVars == <<envVars, cmpVars, genVars, tsVars, nmVars, hdVars, ccVars>>
vars == <<environ, configured, local_files, repo_files, verdict,
          params, HF_TOKEN, gen_model, model_path, model_files, mar_output,
          store, tmp_dirs, pc, exit_code, exit_at, raised, tmp_dir, monitor,
          archiver, hub_called, download_called, fs0, run,
          ts_params, ts_pc, server, gen_folder, ts_log, ts_raised, ts_exit,
          inferred, ts_fs, ts_sent, mar_args, mar_names,
          hd_pc, hd_batch, hd_request, hd_data, hd_responses, hd_handled,
          cc_pc, cc_gm, cc_tmp_dir, cc_exit, cc_log,
          lk_models, lk_args, lk_mar, lk_path,
          ig_listing, ig_pc, ig_patterns, ig_files, rt_downloaded,
          cf_model, cf_template, cf_config, cf_raised,
          ob_heap, ob_objects, ob_written,
          mn_main, mn_pc, mn_stop, mn_file, mn_size, mn_error>>

(***************************************************************************)
(* Python values                                                           *)
(***************************************************************************)
None == <<"<None>">>

\* `not x` for x a str or None
Falsy(x) == x = None \/ x = <<>>

Min(a, b) == IF a <= b THEN a ELSE b

\* s.endswith(suffix)
EndsWith(s, suffix) ==
    /\ Len(suffix) <= Len(s)
    /\ SubSeq(s, Len(s) - Len(suffix) + 1, Len(s)) = suffix

\* s.startswith(prefix)
StartsWith(s, prefix) ==
    /\ Len(prefix) <= Len(s)
    /\ SubSeq(s, 1, Len(prefix)) = prefix

\* s without its last atom
Front(s) == SubSeq(s, 1, Len(s) - 1)

\* str(v) of a number: the one-atom string of its decimal text
ToStr(v) == <<v>>

\* the sequences over S of length at most n
SeqsUpTo(S, n) == UNION {[1..k -> S] : k \in 0..n}

(***************************************************************************)
(* The remote hub, the catalog and the inputs of generate.py               *)
(***************************************************************************)
\* How many runs of run_script the file system sees, one after the other.
MaxRuns == 2

\* an access token the hub accepts
Tok == <<"hf_token">>

\* revisions: two that share their first seven characters, a branch name,
\* one the hub does not know, and the pinned revision of the gated repository
RevA == <<"e", "7", "d", "a", "7", "f", "2", "2">>
RevB == <<"e", "7", "d", "a", "7", "f", "2", "9">>
RevMain == <<"m", "a", "i", "n">>
RevBad == <<"b", "a", "d">>
RevL == <<"0", "1", "c", "7", "f", "7", "3", "d">>

Gpt2Repo == <<"gpt2">>
LlamaRepo == <<"meta-llama", "/", "Llama-2-7b-hf">>
WrongRepo == <<"wrong_repo_id">>

\* model_config.json: the catalog.  gpt2 declares every generation
\* parameter, mpt_7b declares no temperature, phi has no model_params, and
\* the repository of llama2_7b is gated.
model_config ==
    [ gpt2      |-> [ repo_id |-> Gpt2Repo, repo_version |-> RevA,
                      handler |-> <<"handler.py">>,
                      model_params |-> [ temperature |-> 7, repetition_penalty |-> 11,
                                         top_p |-> 9, max_new_tokens |-> 50 ] ],
      mpt_7b    |-> [ repo_id |-> <<"mosaicml", "/", "mpt-7b">>, repo_version |-> RevA,
                      handler |-> <<"handler.py">>,
                      model_params |-> [ top_p |-> 9, max_new_tokens |-> 20 ] ],
      phi       |-> [ repo_id |-> <<"microsoft", "/", "phi-1_5">>, repo_version |-> RevA,
                      handler |-> <<"handler.py">> ],
      llama2_7b |-> [ repo_id |-> LlamaRepo, repo_version |-> RevL,
                      handler |-> <<"handler.py">>,
                      model_params |-> [ temperature |-> 6, repetition_penalty |-> 11,
                                         top_p |-> 9, max_new_tokens |-> 50 ] ] ]

\* `model_name in models`
InCatalog(model_name) == Len(model_name) = 1 /\ model_name[1] \in DOMAIN model_config

\* The hub: the revisions of a repository (none: no such repository)
HubRevisions(repo_id) ==
    IF repo_id = Gpt2Repo THEN {RevA, RevB, RevMain}
    ELSE IF repo_id = LlamaRepo THEN {RevL}
    ELSE {}

\* commit_info[0].commit_id of the default branch
HubLatest(repo_id) == IF repo_id = Gpt2Repo THEN RevB ELSE RevL

\* HfApi.list_repo_files(repo_id, revision)
HubFiles(repo_id) ==
    IF repo_id = Gpt2Repo
    THEN << <<"config", ".json">>, <<"model", ".safetensors">>,
            <<"pytorch_model", ".bin">> >>
    ELSE << <<"config", ".json">>, <<"pytorch_model", ".bin">> >>

\* HfApi.list_repo_commits(repo_id, revision, token) returns (TRUE) or raises
\* an HfHubHTTPError: unknown repository or revision, or a gated repository
\* read without a token the hub accepts
HubListsCommits(repo_id, revision, token) ==
    /\ HubRevisions(repo_id) # {}
    /\ revision = None \/ revision \in HubRevisions(repo_id)
    /\ StartsWith(repo_id, <<"meta-llama">>) => token = Tok

\* the handler files that exist
HandlerFiles == {<<"handler.py">>, <<"my_handler.py">>}

\* the contents model_path is found with: nothing, what a download of gpt2
\* leaves there, and a directory that has lost its weights
Downloaded == {<<"config", ".json">>, <<"model", ".safetensors">>}
Drifted == {<<"config", ".json">>}

\* a finished archive that was in mar_output before the first run
OldArchive == [by |-> 0, complete |-> TRUE]

ParamsSpace ==
    [ model_name : {<<"gpt2">>, <<"llama2_7b">>, <<"mymodel">>},
      repo_id : {None, Gpt2Repo, LlamaRepo, WrongRepo},
      repo_version : {None, RevA, RevB, RevMain, RevBad},
      skip_download : BOOLEAN,
      handler_path : {<<>>, <<"my_handler.py">>, <<"invalid_handler.py">>},
      hf_token : {None, Tok} ]

(***************************************************************************)
(* set_model_params: generation parameters projected into os.environ       *)
(***************************************************************************)
\* Largest value a prior environment entry holds (values 0..MaxEnvValue).
MaxEnvValue == 1

\* tsutils.py, generation_params: environment name -> model_params key
generation_params ==
    [ NAI_TEMPERATURE |-> "temperature",
      NAI_REP_PENALTY |-> "repetition_penalty",
      NAI_TOP_P       |-> "top_p",
      NAI_MAX_TOKENS  |-> "max_new_tokens" ]

\* the model names set_model_params is called with; "mymodel" is custom
ParamModelNames == DOMAIN model_config \cup {"mymodel"}

\* os.environ after set_model_params(model_name) ran on os.environ = env
set_model_params(env, model_name) ==
    IF model_name \in DOMAIN model_config
    THEN IF "model_params" \in DOMAIN model_config[model_name]
         THEN LET param_config == model_config[model_name].model_params
                  kept == {n \in DOMAIN generation_params :
                               generation_params[n] \in DOMAIN param_config}
              IN  [n \in kept |-> ToStr(param_config[generation_params[n]])]
         ELSE [n \in {} |-> ToStr(0)]
    ELSE env

EnvInit ==
    /\ environ \in UNION {[S -> {ToStr(v) : v \in 0..MaxEnvValue}] :
                              S \in SUBSET DOMAIN generation_params}
    /\ configured = None

EnvIdle ==
    /\ environ = [n \in {} |-> ToStr(0)]
    /\ configured = None

SetModelParams ==
    \E m \in ParamModelNames :
        /\ environ' = set_model_params(environ, m)
        /\ configured' = <<m>>
        /\ UNCHANGED <<cmpVars, genVars, tsVars, nmVars, hdVars, ccVars, libVars>>

(***************************************************************************)
(* The file-set validator of download.py                                   *)
(***************************************************************************)
\* Longest list of file names the validator is given.
MaxListLen == 3

\* download.py, FILE_EXTENSIONS_TO_IGNORE
FILE_EXTENSIONS_TO_IGNORE ==
    << <<".safetensors">>, <<".safetensors", ".index", ".json">>, <<".h5">>,
       <<".ot">>, <<".tflite">>, <<".msgpack">>, <<".onnx">> >>

\* The file names the lists are drawn from: a kept file, two ignored ones,
\* and a name that ends in a newline after an ignored extension.
FileNames ==
    { <<"config", ".json">>,
      <<"model", ".safetensors">>,
      <<"model", ".safetensors", ".index", ".json">>,
      <<"tf_model", ".h5", "\n">> }

\* re.search(re.escape(suffix) + "$", filename): `$` matches at the end of
\* the string and also just before a newline that ends the string.
SearchSuffix(suffix, filename) ==
    \/ EndsWith(filename, suffix)
    \/ /\ Len(filename) > 0
       /\ filename[Len(filename)] = "\n"
       /\ EndsWith(Front(filename), suffix)

\* re.search(pattern, filename) for pattern the "|"-join of the suffixes
SearchPattern(extensions_to_remove, filename) ==
    \E i \in 1..Len(extensions_to_remove) :
        SearchSuffix(extensions_to_remove[i], filename)

\* [x for x in seq if Keep(x)]
RECURSIVE FilterSeq(_, _)
FilterSeq(seq, keep) ==
    IF seq = <<>> THEN <<>>
    ELSE IF Head(seq) \in keep
         THEN <<Head(seq)>> \o FilterSeq(Tail(seq), keep)
         ELSE FilterSeq(Tail(seq), keep)

filter_files_by_extension(filenames, extensions_to_remove) ==
    FilterSeq(filenames,
              {f \in {filenames[i] : i \in 1..Len(filenames)} :
                   ~SearchPattern(extensions_to_remove, f)})

\* collections.Counter(list): element -> number of occurrences
Counter(list) ==
    [x \in {list[i] : i \in 1..Len(list)} |->
        Cardinality({i \in 1..Len(list) : list[i] = x})]

compare_lists(list1, list2) == Counter(list1) = Counter(list2)

\* check_if_model_files_exist on the two listings
check_if_model_files_exist(extra_files_list, listing) ==
    compare_lists(extra_files_list,
                  filter_files_by_extension(listing, FILE_EXTENSIONS_TO_IGNORE))

CmpInit ==
    /\ local_files \in SeqsUpTo(FileNames, MaxListLen)
    /\ repo_files \in SeqsUpTo(FileNames, MaxListLen)
    /\ verdict = "none"

CmpIdle ==
    /\ local_files = <<>>
    /\ repo_files = <<>>
    /\ verdict = "none"

CheckIfModelFilesExist ==
    /\ verdict = "none"
    /\ verdict' = IF check_if_model_files_exist(local_files, repo_files)
                  THEN "match" ELSE "mismatch"
    /\ UNCHANGED <<local_files, repo_files>>
    /\ UNCHANGED <<envVars, genVars, tsVars, nmVars, hdVars, ccVars, libVars>>

(***************************************************************************)
(* marsgen.py and generate_data_model.py                                   *)
(***************************************************************************)
MAR_NAME_LEN == 7

\* a get_mar_name that keeps the whole revision instead of a prefix of it
get_mar_name_whole_revision(model_name, repo_version, is_custom_model) ==
    IF is_custom_model
    THEN model_name
    ELSE model_name \o <<"_">> \o repo_version

\* a get_mar_name that appends the revision for custom models too
get_mar_name_ignoring_custom(model_name, repo_version, is_custom_model) ==
    model_name \o <<"_">>
        \o SubSeq(repo_version, 1, Min(MAR_NAME_LEN, Len(repo_version)))

\* marsgen.py get_mar_name
get_mar_name(model_name, repo_version, is_custom_model) ==
    IF is_custom_model
    THEN model_name
    ELSE model_name \o <<"_">>
             \o SubSeq(repo_version, 1, Min(MAR_NAME_LEN, Len(repo_version)))

\* the file name "{name}.mar"
MarFile(name) == name \o <<".mar">>

\* a check that finds every folder empty
folder_always_empty(files) == TRUE

\* a check that finds no folder empty
folder_never_empty(files) == FALSE

\* system_utils.py check_if_folder_empty, on the files of the folder
check_if_folder_empty(files) == files = {}

\* GenerateDataModel.set_values
set_values(p, env_token) ==
    [ model_name |-> p.model_name,
      skip_download |-> p.skip_download,
      is_custom_model |-> FALSE,
      hf_token |-> IF Falsy(p.hf_token) THEN env_token ELSE p.hf_token,
      repo_id |-> p.repo_id,
      repo_version |-> p.repo_version,
      handler_path |-> p.handler_path,
      mar_name |-> <<>> ]

\* a validate_hf_token that asks no repository for a token
token_never_required(gm) == FALSE

\* GenerateDataModel.validate_hf_token exits
validate_hf_token_exits(gm) ==
    StartsWith(gm.repo_id, <<"meta-llama">>) /\ gm.hf_token = None

\* GenerateDataModel.validate_commit_info, when the hub call returns
validate_commit_info(gm) ==
    IF Falsy(gm.repo_version)
    THEN [gm EXCEPT !.repo_version = HubLatest(gm.repo_id)]
    ELSE gm

\* a check_if_mar_exists that never exits
check_if_mar_exists_never_exits(gm) == FALSE

\* a check_if_mar_exists that looks for "{model_name}.mar"
check_if_model_name_mar_exists(gm) == MarFile(gm.model_name) \in DOMAIN store

\* GenerateDataModel.check_if_mar_exists exits
check_if_mar_exists_exits(gm) == MarFile(gm.mar_name) \in DOMAIN store

(***************************************************************************)
(* Calls of get_mar_name on one model name and one revision                *)
(***************************************************************************)
\* Longest revision get_mar_name is given.
MaxRevLen == 8

\* Most calls of get_mar_name on the same model name and revision.
MaxCalls == 2

\* the characters the revisions are made of
RevChars == {"e", "7"}

NamerInit ==
    /\ mar_args \in [model_name : {<<"gpt2">>, <<"mymodel">>},
                     repo_version : SeqsUpTo(RevChars, MaxRevLen)]
    /\ mar_names = <<>>

NamerIdle ==
    /\ mar_args = [model_name |-> <<"gpt2">>, repo_version |-> <<>>]
    /\ mar_names = <<>>

\* one call get_mar_name(model_name, repo_version, is_custom_model)
GetMarName ==
    /\ Len(mar_names) < MaxCalls
    /\ \E is_custom_model \in BOOLEAN :
          mar_names' = Append(mar_names,
                          [is_custom_model |-> is_custom_model,
                           mar_name |-> get_mar_name(mar_args.model_name,
                                                     mar_args.repo_version,
                                                     is_custom_model)])
    /\ UNCHANGED <<mar_args, envVars, cmpVars, genVars, tsVars, hdVars, ccVars, libVars>>

(***************************************************************************)
(* generate.py read_config_for_download                                    *)
(***************************************************************************)
\* what read_config_for_download ends with: the object, the check that
\* exited ("" when none), the exception raised, whether the hub was called
Resolved(gm, hub) ==
    [ gm |-> [gm EXCEPT !.mar_name =
                 get_mar_name(gm.model_name, gm.repo_version, gm.is_custom_model)],
      exit_at |-> "", raised |-> "", hub |-> hub ]

Exits(gm, at, hub) ==
    [ gm |-> gm, exit_at |-> at, raised |-> "SystemExit", hub |-> hub ]

Raises(gm, exc, hub) ==
    [ gm |-> gm, exit_at |-> "", raised |-> exc, hub |-> hub ]

\* a custom model left without a revision
NoRepoVersion == None

\* the revision of a custom model that is not downloaded and has none
DefaultRepoVersion == <<"1", ".", "0">>

\* a handler choice that takes the default whatever the caller gave
handler_always_default(gm, default) == [gm EXCEPT !.handler_path = default]

\* `if not handler_path: handler_path = <default>`
DefaultHandler(gm, default) ==
    IF Falsy(gm.handler_path) THEN [gm EXCEPT !.handler_path = default] ELSE gm

\* validate_hf_token alone, with no look at what the hub lists
ValidateTokenOnly(gm, default_handler) ==
    IF validate_hf_token_exits(gm)
    THEN Exits(gm, "validate_hf_token", FALSE)
    ELSE Resolved(DefaultHandler(validate_commit_info(gm), default_handler), TRUE)

\* validate_hf_token, then validate_commit_info
ValidateRepo(gm, default_handler) ==
    IF validate_hf_token_exits(gm)
    THEN Exits(gm, "validate_hf_token", FALSE)
    ELSE IF ~HubListsCommits(gm.repo_id, gm.repo_version, gm.hf_token)
         THEN Exits(gm, "validate_commit_info", TRUE)
         ELSE Resolved(DefaultHandler(validate_commit_info(gm), default_handler), TRUE)

read_config_for_download(gm0) ==
    IF InCatalog(gm0.model_name)
    THEN LET entry == model_config[gm0.model_name[1]]
             gm1 == [gm0 EXCEPT !.is_custom_model = FALSE,
                                !.repo_id = entry.repo_id,
                                !.repo_version = IF Falsy(@) THEN entry.repo_version ELSE @,
                                !.handler_path = IF Falsy(@) THEN entry.handler ELSE @]
         IN  ValidateRepo(gm1, entry.handler)
    ELSE LET gm1 == [gm0 EXCEPT !.is_custom_model = TRUE]
         IN  IF gm1.skip_download
             THEN IF model_path = "missing"
                  THEN Raises(gm1, "FileNotFoundError", FALSE)   \* os.listdir
                  ELSE IF check_if_folder_empty(model_files)
                       THEN Exits(gm1, "empty_model_path", FALSE)
                       ELSE Resolved(
                                DefaultHandler(
                                    [gm1 EXCEPT !.repo_version =
                                         IF Falsy(@) THEN DefaultRepoVersion ELSE @],
                                    <<"handler.py">>),
                                FALSE)
             ELSE IF Falsy(gm1.repo_id)
                  THEN Exits(gm1, "missing_repo_id", FALSE)
                  ELSE ValidateRepo(gm1, <<"handler.py">>)

(***************************************************************************)
(* generate.py: the download                                               *)
(***************************************************************************)
PREFERRED_MODEL_FORMATS == <<".safetensors", ".bin">>

OTHER_MODEL_FORMATS ==
    << <<"*", ".pt">>, <<"*", ".h5">>, <<"*", ".gguf">>, <<"*", ".msgpack">>,
       <<"*", ".tflite">>, <<"*", ".ot">>, <<"*", ".onnx">> >>

\* os.path.splitext(file_name)[1] of a name whose last atom is its extension
SplitExt(file_name) ==
    IF Len(file_name) >= 2 THEN file_name[Len(file_name)] ELSE ""

\* GenerateDataModel.get_repo_file_extensions
get_repo_file_extensions(listing) ==
    {SplitExt(listing[i]) : i \in 1..Len(listing)}

\* the patterns "*" + extension of every preferred format but `desired`
RECURSIVE OtherPreferred(_, _)
OtherPreferred(formats, desired) ==
    IF formats = <<>> THEN <<>>
    ELSE IF Head(formats) # desired
         THEN << <<"*", Head(formats)>> >> \o OtherPreferred(Tail(formats), desired)
         ELSE OtherPreferred(Tail(formats), desired)

get_ignore_pattern_list(listing) ==
    LET exts == get_repo_file_extensions(listing)
        found == {i \in 1..Len(PREFERRED_MODEL_FORMATS) :
                      PREFERRED_MODEL_FORMATS[i] \in exts}
    IN  IF found = {} THEN <<>>
        ELSE LET first == CHOOSE i \in found : \A j \in found : i <= j
             IN  OtherPreferred(PREFERRED_MODEL_FORMATS, PREFERRED_MODEL_FORMATS[first])
                     \o OTHER_MODEL_FORMATS

\* fnmatch.fnmatch(name, "*" + extension)
FnMatch(name, pattern) == EndsWith(name, Tail(pattern))

\* hfh.snapshot_download(..., ignore_patterns): the files it writes
snapshot_download(listing, ignore_patterns) ==
    {f \in {listing[i] : i \in 1..Len(listing)} :
        \A k \in 1..Len(ignore_patterns) : ~FnMatch(f, ignore_patterns[k])}

(***************************************************************************)
(* generate.py run_script, step by step                                    *)
(***************************************************************************)
\* the five characters create_tmp_model_store takes from a uuid4
RandSuffixes == {"a1b2c", "d3e4f"}

\* create_tmp_model_store: the directory name
TmpDirName(mar_name, rand_uuid) == <<"tmp_">> \o mar_name \o <<"_", rand_uuid>>

\* f without the key k
Without(f, k) == [x \in DOMAIN f \ {k} |-> f[x]]

SysExit(at) ==
    /\ pc' = "exited"
    /\ exit_code' = 1
    /\ exit_at' = at
    /\ raised' = "SystemExit"

Goto(next) ==
    /\ pc' = next
    /\ UNCHANGED <<exit_code, exit_at, raised>>

\* GenerateDataModel(params); read_config_for_download(gen_model)
ReadConfigForDownload ==
    /\ pc = "start"
    /\ LET r == read_config_for_download(set_values(params, HF_TOKEN))
       IN  /\ gen_model' = r.gm
           /\ hub_called' = r.hub
           /\ IF r.raised = "" THEN Goto("check_paths")
              ELSE /\ pc' = "exited"
                   /\ exit_code' = 1
                   /\ exit_at' = r.exit_at
                   /\ raised' = r.raised
    /\ UNCHANGED <<tmp_dir, monitor, archiver, download_called>>
    /\ UNCHANGED <<fsVars, params, HF_TOKEN, fs0, run, envVars, cmpVars, tsVars, nmVars, hdVars, ccVars, libVars>>

\* run_script: the two directory checks, then check_if_mar_exists
CheckPaths ==
    /\ pc = "check_paths"
    /\ IF model_path # "dir" THEN SysExit("model_path")
       ELSE IF mar_output # "dir" THEN SysExit("mar_output")
       ELSE IF check_if_mar_exists_exits(gen_model) THEN SysExit("check_if_mar_exists")
       ELSE IF gen_model.skip_download THEN Goto("create_mar")
       ELSE Goto("run_download")
    /\ UNCHANGED <<gen_model, tmp_dir, monitor, archiver, hub_called, download_called>>
    /\ UNCHANGED <<fsVars, params, HF_TOKEN, fs0, run, envVars, cmpVars, tsVars, nmVars, hdVars, ccVars, libVars>>

\* run_download
RunDownload ==
    /\ pc = "run_download"
    /\ IF ~check_if_folder_empty(model_files)
       THEN /\ SysExit("model_path_not_empty")
            /\ UNCHANGED <<model_files, download_called, hub_called>>
       ELSE /\ Goto("create_mar")
            /\ hub_called' = TRUE
            /\ download_called' = TRUE
            /\ model_files' =
                   snapshot_download(HubFiles(gen_model.repo_id),
                                     get_ignore_pattern_list(HubFiles(gen_model.repo_id)))
    /\ UNCHANGED <<gen_model, tmp_dir, monitor, archiver>>
    /\ UNCHANGED <<model_path, mar_output, store, tmp_dirs>>
    /\ UNCHANGED <<params, HF_TOKEN, fs0, run, envVars, cmpVars, tsVars, nmVars, hdVars, ccVars, libVars>>

\* create_mar: the empty-folder check and create_tmp_model_store
CreateTmpModelStore ==
    /\ pc = "create_mar"
    /\ IF check_if_folder_empty(model_files)
       THEN /\ SysExit("no_model_files")
            /\ UNCHANGED <<tmp_dir, tmp_dirs>>
       ELSE \E rand_uuid \in RandSuffixes :
              LET name == TmpDirName(gen_model.mar_name, rand_uuid)
              IN  /\ tmp_dir' = name
                  \* os.makedirs(path, exist_ok=True)
                  /\ tmp_dirs' = IF name \in DOMAIN tmp_dirs THEN tmp_dirs
                                 ELSE tmp_dirs @@ (name :> <<>>)
                  /\ Goto("generate_mars")
    /\ UNCHANGED <<gen_model, monitor, archiver, hub_called, download_called>>
    /\ UNCHANGED <<model_path, model_files, mar_output, store>>
    /\ UNCHANGED <<params, HF_TOKEN, fs0, run, envVars, cmpVars, tsVars, nmVars, hdVars, ccVars, libVars>>

\* generate_mars up to subprocess.check_call: the handler check, the
\* export path check, the monitor thread started, the archiver started
GenerateMars ==
    /\ pc = "generate_mars"
    /\ IF gen_model.handler_path \notin HandlerFiles
       THEN /\ SysExit("handler")
            /\ UNCHANGED <<monitor, archiver>>
       ELSE IF tmp_dir \notin DOMAIN tmp_dirs
       THEN /\ SysExit("model_store")
            /\ UNCHANGED <<monitor, archiver>>
       ELSE /\ Goto("archiving")
            /\ monitor' = "running"
            /\ archiver' = [invoked |-> TRUE, status |-> "none",
                            version |-> gen_model.repo_version,
                            files |-> model_files]
    /\ UNCHANGED <<gen_model, tmp_dir, hub_called, download_called>>
    /\ UNCHANGED <<fsVars, params, HF_TOKEN, fs0, run, envVars, cmpVars, tsVars, nmVars, hdVars, ccVars, libVars>>

\* the archiver at work: it writes "{model_name}.mar" under the export path
ArchiverWrites ==
    /\ pc = "archiving"
    /\ LET file == MarFile(gen_model.model_name)
           part == [by |-> run, complete |-> FALSE]
       IN  tmp_dirs' = [tmp_dirs EXCEPT ![tmp_dir] = (file :> part) @@ @]
    /\ UNCHANGED procVars
    /\ UNCHANGED <<model_path, model_files, mar_output, store>>
    /\ UNCHANGED <<params, HF_TOKEN, fs0, run, envVars, cmpVars, tsVars, nmVars, hdVars, ccVars, libVars>>

\* a subprocess call that ignores the archiver's exit status
call_never_raises(status) == FALSE

\* subprocess.check_call raises CalledProcessError, and generate_mars exits
check_call_raises(status) == status # 0

\* subprocess.check_call returns: the archiver has ended with `status`; on
\* status 0 the file it was to produce is finished, or is not there at all
ArchiverExits ==
    /\ pc = "archiving"
    /\ \E status \in 0..1, produced \in BOOLEAN :
         LET file == MarFile(gen_model.model_name)
             done == [by |-> run, complete |-> TRUE]
         IN  /\ archiver' = [archiver EXCEPT !.status = IF status = 0 THEN "zero" ELSE "nonzero"]
             /\ IF check_call_raises(status)
                THEN /\ SysExit("archiver_failed")
                     /\ UNCHANGED <<tmp_dirs, monitor>>
                ELSE /\ Goto("move_mar")
                     \* stop_monitoring.set(); mar_progress_thread.join()
                     /\ monitor' = "stopped"
                     /\ tmp_dirs' =
                            [tmp_dirs EXCEPT ![tmp_dir] =
                                 IF status = 0
                                 THEN IF produced THEN (file :> done) @@ @
                                      ELSE Without(@, file)
                                 ELSE @]
    /\ UNCHANGED <<gen_model, tmp_dir, hub_called, download_called>>
    /\ UNCHANGED <<model_path, model_files, mar_output, store>>
    /\ UNCHANGED <<params, HF_TOKEN, fs0, run, envVars, cmpVars, tsVars, nmVars, hdVars, ccVars, libVars>>

\* shutil.move(src, dst): what is left of the source directory
mv_file_leaves(files, name) == Without(files, name)

\* move_mar
MoveMar ==
    /\ pc = "move_mar"
    /\ LET old_filename == MarFile(gen_model.model_name)
           new_filename == MarFile(gen_model.mar_name)
       IN  IF old_filename \notin DOMAIN tmp_dirs[tmp_dir]
           THEN /\ SysExit("mar_missing")
                /\ UNCHANGED <<store, tmp_dirs>>
           ELSE /\ Goto("rm_dir")
                /\ store' = (new_filename :> tmp_dirs[tmp_dir][old_filename]) @@ store
                /\ tmp_dirs' = [tmp_dirs EXCEPT ![tmp_dir] =
                                    mv_file_leaves(@, old_filename)]
    /\ UNCHANGED <<gen_model, tmp_dir, monitor, archiver, hub_called, download_called>>
    /\ UNCHANGED <<model_path, model_files, mar_output>>
    /\ UNCHANGED <<params, HF_TOKEN, fs0, run, envVars, cmpVars, tsVars, nmVars, hdVars, ccVars, libVars>>

\* shutil.rmtree(path) when the path exists
rm_dir(dirs, path) == Without(dirs, path)

\* create_mar: rm_dir(tmp_dir); run_script returns True
RmDir ==
    /\ pc = "rm_dir"
    /\ tmp_dirs' = rm_dir(tmp_dirs, tmp_dir)
    /\ pc' = "done"
    /\ exit_code' = 0
    /\ UNCHANGED <<exit_at, raised>>
    /\ UNCHANGED <<gen_model, tmp_dir, monitor, archiver, hub_called, download_called>>
    /\ UNCHANGED <<model_path, model_files, mar_output, store>>
    /\ UNCHANGED <<params, HF_TOKEN, fs0, run, envVars, cmpVars, tsVars, nmVars, hdVars, ccVars, libVars>>

\* the class attributes of GenerateDataModel, MarUtils and RepoInfo
BlankModel ==
    [ model_name |-> <<>>, skip_download |-> FALSE, is_custom_model |-> FALSE,
      hf_token |-> <<>>, repo_id |-> <<>>, repo_version |-> <<>>,
      handler_path |-> <<>>, mar_name |-> <<>> ]

NoArchiver == [invoked |-> FALSE, status |-> "none", version |-> None, files |-> {}]

\* a process that has not called run_script (exit_code -1: it has not ended)
ProcStart ==
    /\ gen_model = BlankModel
    /\ exit_code = -1
    /\ exit_at = ""
    /\ raised = ""
    /\ tmp_dir = None
    /\ monitor = "none"
    /\ archiver = NoArchiver
    /\ hub_called = FALSE
    /\ download_called = FALSE

\* the same invocation once more, in a new process, on the file system the
\* run before it left
NewRun ==
    /\ pc \in {"done", "exited"}
    /\ run < MaxRuns
    /\ run' = run + 1
    /\ fs0' = [model_files |-> model_files, store |-> store, tmp_dirs |-> tmp_dirs]
    /\ gen_model' = BlankModel
    /\ pc' = "start"
    /\ exit_code' = -1
    /\ exit_at' = ""
    /\ raised' = ""
    /\ tmp_dir' = None
    /\ monitor' = "none"
    /\ archiver' = NoArchiver
    /\ hub_called' = FALSE
    /\ download_called' = FALSE
    /\ UNCHANGED <<fsVars, params, HF_TOKEN, envVars, cmpVars, tsVars, nmVars, hdVars, ccVars, libVars>>

GenInit ==
    /\ params \in ParamsSpace
    /\ HF_TOKEN \in {None, <<>>, Tok}
    /\ model_path \in {"missing", "dir"}
    /\ model_files \in IF model_path = "dir" THEN {{}, Downloaded, Drifted} ELSE {{}}
    /\ mar_output \in {"missing", "dir"}
    /\ store \in IF mar_output = "dir"
                 THEN UNION {[S -> {OldArchive}] :
                          S \in SUBSET {MarFile(<<"gpt2", "_">> \o SubSeq(RevA, 1, 7)),
                                        MarFile(<<"mymodel">>)}}
                 ELSE {<<>>}
    /\ tmp_dirs = <<>>
    /\ fs0 = [model_files |-> model_files, store |-> store, tmp_dirs |-> tmp_dirs]
    /\ run = 1
    /\ ProcStart
    /\ pc = "start"

GenIdle ==
    /\ params = [model_name |-> <<>>, repo_id |-> None, repo_version |-> None,
                 skip_download |-> FALSE, handler_path |-> <<>>, hf_token |-> None]
    /\ HF_TOKEN = None
    /\ model_path = "missing"
    /\ model_files = {}
    /\ mar_output = "missing"
    /\ store = <<>>
    /\ tmp_dirs = <<>>
    /\ fs0 = [model_files |-> {}, store |-> <<>>, tmp_dirs |-> <<>>]
    /\ run = 1
    /\ ProcStart
    /\ pc = "idle"

(***************************************************************************)
(* The inference run: torchserve_run.py and inference_utils.py             *)
(***************************************************************************)
\* Most input files the --data folder holds.
MaxInputs == 2

\* Most calls of unregister_model one process makes.
MaxUnregisters == 2

\* the Python str of a model name, "" being the empty str
PyStr(name) == IF name = "" THEN <<>> ELSE <<name>>

\* the model names torchserve_run is given: those set_model_params knows,
\* and none at all (--model_name defaults to "")
RunModelNames == ParamModelNames \cup {""}

\* the archives a model store is found with: gpt2 at the catalog's revision
\* and a custom one
StoreArchives ==
    {MarFile(get_mar_name(<<"gpt2">>, RevA, FALSE)), MarFile(<<"mymodel">>)}

\* get_all_files_in_directory(input_path) of a folder of n files: the files,
\* numbered in the order of the listing
model_inputs(n) == [i \in 1..n |-> i]

\* what a request to the server comes back with: HTTP 200, another status,
\* or no response object
Responses == {"200", "non200", "no_response"}

\* a test that takes any response object for a success
any_response_ok(response) == response # "no_response"

\* inference_utils.py: `response and response.status_code == 200`
response_ok(response) == response = "200"

\* a stop_torchserve that runs the stop command whatever the ping says
stop_torchserve_without_ping(srv) ==
    IF srv = "down"
    THEN {[server |-> "down", reachable |-> FALSE, cmd |-> TRUE]}
    ELSE {[server |-> s, reachable |-> TRUE, cmd |-> TRUE] : s \in {"down", "up"}}

\* tsutils.py stop_torchserve: what a call does on the server srv.  The ping
\* of an unreachable server raises, which is caught: the stop command is not
\* run.  A reachable server stops when the stop command returns 0 and keeps
\* running otherwise.
stop_torchserve(srv) ==
    IF srv = "down"
    THEN {[server |-> "down", reachable |-> FALSE, cmd |-> FALSE]}
    ELSE {[server |-> s, reachable |-> TRUE, cmd |-> TRUE] : s \in {"down", "up"}}

\* what a call of stop_torchserve adds to the log
StopEvents(o) ==
    <<"stop">> \o (IF o.reachable THEN <<>> ELSE <<"ping_failed">>)
               \o (IF o.cmd THEN <<"stop_cmd">> ELSE <<>>)
               \o (IF o.cmd /\ o.server = "down" THEN <<"stopped">> ELSE <<>>)

\* shell_utils.py rm_dir on "{gen_folder}/logs"
rm_logs(folder) == IF folder = "logs" THEN "present" ELSE folder

\* a cleanup that tests ts_cleanup outside the test of ts_stop
cleanup_with_ts_cleanup_alone(ts_stop, flag) ==
    IF ts_stop
    THEN \E o \in stop_torchserve(server) :
            /\ server' = o.server
            /\ ts_log' = ts_log \o StopEvents(o)
            /\ gen_folder' = IF flag THEN "absent" ELSE rm_logs(gen_folder)
    ELSE /\ UNCHANGED <<server, ts_log>>
         /\ gen_folder' = IF flag THEN "absent" ELSE gen_folder

\* torchserve_run.py cleanup(gen_folder, ts_stop, ts_cleanup)
cleanup(ts_stop, flag) ==
    IF ts_stop
    THEN \E o \in stop_torchserve(server) :
            /\ server' = o.server
            /\ ts_log' = ts_log \o StopEvents(o)
            /\ gen_folder' = IF flag THEN "absent" ELSE rm_logs(gen_folder)
    ELSE UNCHANGED <<server, ts_log, gen_folder>>

\* inference_utils.py error_msg_print, after the events `log`
error_msg_print(log) ==
    \E o \in stop_torchserve(server) :
        /\ server' = o.server
        /\ ts_log' = log \o StopEvents(o)

\* sys.exit(1), or an exception, inside the try of torchserve_run
TsRaise(exc) ==
    /\ ts_pc' = "finally"
    /\ ts_raised' = exc

\* torchserve_run: the first cleanup, "stop the server if anything is running"
TsFirstCleanup ==
    /\ ts_pc = "start"
    /\ cleanup(TRUE, FALSE)
    /\ ts_pc' = "validate"
    /\ UNCHANGED <<ts_params, ts_fs, ts_raised, ts_exit, inferred, ts_sent>>
    /\ UNCHANGED <<envVars, cmpVars, genVars, nmVars, hdVars, ccVars, libVars>>

\* torchserve_run.py read_config_for_inference: is_custom_model and
\* repo_version of the params it returns
read_config_for_inference(p) ==
    LET is_custom_model == ~InCatalog(PyStr(p.model_name))
    IN  [ is_custom_model |-> is_custom_model,
          repo_version |->
              IF /\ ~is_custom_model
                 /\ ~Falsy(model_config[p.model_name].repo_version)
                 /\ Falsy(p.repo_version)
              THEN model_config[p.model_name].repo_version
              ELSE p.repo_version ]

\* torchserve_run.py set_mar_filepath: the file name under model_store
set_mar_filepath(model_name, repo_version, is_custom_model) ==
    MarFile(get_mar_name(PyStr(model_name), repo_version, is_custom_model))

\* a check_if_path_exists that lets every path through
path_check_never_exits(exists) == FALSE

\* system_utils.py check_if_path_exists exits
check_if_path_exists_exits(exists) == ~exists

\* torchserve_run.py run_inference: one of its three path checks exits
run_inference_exits(p, fs) ==
    LET cfg == read_config_for_inference(p)
        mar == set_mar_filepath(p.model_name, cfg.repo_version, cfg.is_custom_model)
    IN  \/ check_if_path_exists_exits(fs.model_store = "dir")
        \/ check_if_path_exists_exits(mar \in fs.mars)
        \/ /\ ~Falsy(p.data)
           /\ check_if_path_exists_exits(fs.data = "dir")

\* torchserve_run: check_if_path_exists(MODEL_CONFIG_PATH),
\* read_config_for_inference, and run_inference up to ts.set_model_params
TsRunInference ==
    /\ ts_pc = "validate"
    /\ IF run_inference_exits(ts_params, ts_fs)
       THEN /\ TsRaise("SystemExit")
            /\ UNCHANGED <<gen_folder, envVars>>
       ELSE /\ gen_folder' = IF gen_folder = "absent" THEN "present" ELSE gen_folder
            /\ environ' = set_model_params(environ, ts_params.model_name)
            /\ configured' = <<ts_params.model_name>>
            /\ ts_pc' = "start_server"
            /\ UNCHANGED ts_raised
    /\ UNCHANGED <<ts_params, ts_fs, server, ts_log, ts_exit, inferred, ts_sent>>
    /\ UNCHANGED <<cmpVars, genVars, nmVars, hdVars, ccVars, libVars>>

\* a start_ts_server that goes on when the server did not start
start_failure_ignored(started) == FALSE

\* inference_utils.py start_ts_server exits: `if not started`
start_ts_server_exits(started) == ~started

\* get_inference_with_mar: prepare_settings, then get_inference_internal up
\* to start_ts_server; `started` is whether the start command returned 0
StartTsServer ==
    /\ ts_pc = "start_server"
    /\ gen_folder' = "logs"
    /\ \E outcome \in {"no_cuda", "start"}, started \in BOOLEAN :
          LET log == ts_log \o <<"start">>
                         \o (IF started THEN <<>> ELSE <<"start_failed">>)
          IN  CASE outcome = "no_cuda" ->
                      /\ TsRaise("SystemExit")
                      /\ UNCHANGED <<server, ts_log>>
                [] outcome = "start" /\ start_ts_server_exits(started) ->
                      /\ error_msg_print(log)
                      /\ TsRaise("SystemExit")
                [] OTHER ->
                      /\ server' = IF started THEN "up" ELSE server
                      /\ ts_log' = log
                      /\ ts_pc' = "register"
                      /\ UNCHANGED ts_raised
    /\ UNCHANGED <<ts_params, ts_fs, ts_exit, inferred, ts_sent>>
    /\ UNCHANGED <<envVars, cmpVars, genVars, nmVars, hdVars, ccVars, libVars>>

\* inference_utils.py ts_health_check: one `curl localhost:8080/ping`, whose
\* answer is printed and not read; `ready` is what the server would answer
ts_health_check(log, ready) ==
    Append(log, IF ready THEN "health_ready" ELSE "health_not_ready")

\* get_inference_internal: ts_health_check, register_model, and the listing
\* of the input folder.  The request comes back with a response, or raises.
RegisterModel ==
    /\ ts_pc = "register"
    /\ \E ready \in BOOLEAN,
          outcome \in Responses \cup {"RequestException", "KeyError"} :
          LET sent == Append(ts_health_check(ts_log, ready), "register")
              log == IF outcome \in Responses THEN Append(sent, outcome) ELSE sent
          IN  IF outcome \in Responses /\ response_ok(outcome)
              THEN /\ ts_log' = log
                   /\ ts_pc' = IF ~Falsy(ts_params.data) /\ ts_fs.inputs > 0
                               THEN "inference" ELSE "finally"
                   /\ UNCHANGED <<server, ts_raised>>
              ELSE /\ error_msg_print(log)
                   /\ TsRaise("SystemExit")
    /\ UNCHANGED <<ts_params, ts_fs, ts_exit, inferred, ts_sent, gen_folder>>
    /\ UNCHANGED <<envVars, cmpVars, genVars, nmVars, hdVars, ccVars, libVars>>

\* execute_inference_on_inputs: one turn of its loop, on the next file of
\* the listing.  ts.run_inference opens the file, which may raise, and then
\* posts it.
ExecuteInference ==
    /\ ts_pc = "inference"
    /\ LET data == model_inputs(ts_fs.inputs)[inferred + 1]
       IN  \E outcome \in Responses \cup {"RequestException", "OSError"} :
             LET sent == Append(ts_log, "infer")
                 log == IF outcome \in Responses THEN Append(sent, outcome) ELSE sent
             IN  CASE outcome = "OSError" ->
                         /\ TsRaise("OSError")
                         /\ UNCHANGED <<server, ts_log, inferred, ts_sent>>
                   [] outcome \in Responses /\ response_ok(outcome) ->
                         /\ ts_log' = log
                         /\ ts_sent' = Append(ts_sent, data)
                         /\ inferred' = inferred + 1
                         /\ ts_pc' = IF inferred + 1 = ts_fs.inputs
                                     THEN "finally" ELSE "inference"
                         /\ UNCHANGED <<server, ts_raised>>
                   [] OTHER ->
                         /\ ts_sent' = Append(ts_sent, data)
                         /\ error_msg_print(log)
                         /\ TsRaise("SystemExit")
                         /\ UNCHANGED inferred
    /\ UNCHANGED <<ts_params, ts_fs, ts_exit, gen_folder>>
    /\ UNCHANGED <<envVars, cmpVars, genVars, nmVars, hdVars, ccVars, libVars>>

\* torchserve_run: the finally clause, and the end of the process
TsFinally ==
    /\ ts_pc = "finally"
    /\ cleanup(ts_params.stop_server, ts_params.ts_cleanup)
    /\ ts_pc' = "ended"
    /\ ts_exit' = IF ts_raised = "" THEN 0 ELSE 1
    /\ UNCHANGED <<ts_params, ts_fs, ts_raised, inferred, ts_sent>>
    /\ UNCHANGED <<envVars, cmpVars, genVars, nmVars, hdVars, ccVars, libVars>>

\* the arguments of torchserve_run
RunParams ==
    [model_name : RunModelNames,
     repo_version : {<<>>, RevA, RevBad},
     data : {<<>>, <<"data">>},
     stop_server : BOOLEAN,
     ts_cleanup : BOOLEAN]

\* the model store and the input folder the run finds: a missing directory
\* holds nothing
RunFiles ==
    {fs \in [model_store : {"missing", "dir"},
             mars : SUBSET StoreArchives,
             data : {"missing", "dir"},
             inputs : 0..MaxInputs] :
        /\ fs.model_store = "missing" => fs.mars = {}
        /\ fs.data = "missing" => fs.inputs = 0}

TsInit ==
    /\ ts_params \in RunParams
    /\ ts_fs \in RunFiles
    /\ ts_pc = "start"
    /\ server \in {"down", "up"}
    /\ gen_folder \in {"absent", "present", "logs"}
    /\ ts_log = <<>>
    /\ ts_raised = ""
    /\ ts_exit = -1
    /\ inferred = 0
    /\ ts_sent = <<>>

TsIdle ==
    /\ ts_params = [model_name |-> "gpt2", repo_version |-> <<>>, data |-> <<>>,
                    stop_server |-> FALSE, ts_cleanup |-> FALSE]
    /\ ts_fs = [model_store |-> "missing", mars |-> {}, data |-> "missing",
                inputs |-> 0]
    /\ ts_pc = "idle"
    /\ server = "down"
    /\ gen_folder = "absent"
    /\ ts_log = <<>>
    /\ ts_raised = ""
    /\ ts_exit = -1
    /\ inferred = 0
    /\ ts_sent = <<>>

(***************************************************************************)
(* Calls of unregister_model (inference_utils.py)                          *)
(***************************************************************************)
IsUnregister(e) == e = "unregister"

\* one call unregister_model(model_name): the DELETE request comes back with
\* `response`.  sys.exit(1) raises SystemExit in the caller; 1 is the status
\* the process ends with.
UnregisterModel ==
    /\ ts_pc = "unregister"
    /\ Len(SelectSeq(ts_log, IsUnregister)) < MaxUnregisters
    /\ \E response \in Responses :
          LET log == ts_log \o <<"unregister", response>>
          IN  IF response_ok(response)
              THEN /\ ts_log' = log
                   /\ UNCHANGED <<server, ts_pc, ts_raised, ts_exit>>
              ELSE /\ error_msg_print(log)
                   /\ ts_pc' = "ended"
                   /\ ts_raised' = "SystemExit"
                   /\ ts_exit' = 1
    /\ UNCHANGED <<ts_params, ts_fs, gen_folder, inferred, ts_sent>>
    /\ UNCHANGED <<envVars, cmpVars, genVars, nmVars, hdVars, ccVars, libVars>>

\* a process about to call unregister_model, on a server that runs or not
UnregisterInit ==
    /\ ts_params \in {p \in RunParams :
                         /\ p.repo_version = <<>> /\ p.data = <<>>
                         /\ ~p.stop_server /\ ~p.ts_cleanup}
    /\ ts_fs = [model_store |-> "missing", mars |-> {}, data |-> "missing",
                inputs |-> 0]
    /\ ts_pc = "unregister"
    /\ server \in {"down", "up"}
    /\ gen_folder = "absent"
    /\ ts_log = <<>>
    /\ ts_raised = ""
    /\ ts_exit = -1
    /\ inferred = 0
    /\ ts_sent = <<>>

(***************************************************************************)
(* handler.py: one LLMHandler object handling batches of requests          *)
(***************************************************************************)
\* Most requests in one batch.
MaxBatch == 2

\* Most input rows in one structured request.
MaxRows == 2

\* Most batches one handler object is given, one after the other.
MaxHandles == 2

\* a request of a batch: a raw body, or a structured (KServe v2) request
\* with an id ("" when none was sent) and its input rows, which may be none
Requests ==
    {[kind |-> "raw"]}
        \cup [kind : {"kservev2"}, id : {"", "id-1"}, rows : 0..MaxRows]

Batches == UNION {[1..n -> Requests] : n \in 1..MaxBatch}

\* the keys the three dicts of self.request are read and written at
Keys == 0..(MaxBatch * MaxRows)

\* defaultdict(int): every key that was not written reads as 0.  The values
\* of request_ids and request_type are strings, so their 0 is written "0".
NewRequest ==
    [ request_list |-> [k \in Keys |-> 0],
      request_ids |-> [k \in Keys |-> "0"],
      request_type |-> [k \in Keys |-> "0"] ]

\* the text of row r of request i of the batch, and what the model
\* generates from it
Text(i, r) == <<i, r>>

\* the rows request i adds to input_list
RowsOf(batch, i) ==
    IF batch[i].kind = "raw" THEN <<Text(i, 1)>>
    ELSE [r \in 1..batch[i].rows |-> Text(i, r)]

\* LLMHandler.preprocess: self.request and input_list after the first n
\* requests of the batch, on self.request = req
RECURSIVE preprocess(_, _, _)
preprocess(req, batch, n) ==
    IF n = 0 THEN [request |-> req, input_list |-> <<>>]
    ELSE LET before == preprocess(req, batch, n - 1)
             idx == n - 1
             r == before.request
         IN  [ request |->
                   IF batch[n].kind = "raw"
                   THEN [r EXCEPT !.request_type[idx] = "raw"]
                   ELSE [r EXCEPT !.request_type[idx] = "kservev2",
                                  !.request_ids[idx] = batch[n].id,
                                  !.request_list[idx] = @ + batch[n].rows],
               input_list |-> before.input_list \o RowsOf(batch, n) ]

\* LLMHandler.postprocess: the loop from result k of data on.  A raw result
\* is appended and the loop goes on (`continue`) with idx as it is.
RECURSIVE postprocess(_, _, _, _, _, _)
postprocess(req, data, k, idx, inference_output, response_list) ==
    IF k > Len(data) THEN [request |-> req, response_list |-> response_list]
    ELSE IF req.request_type[idx] = "raw"
    THEN postprocess(req, data, k + 1, idx, inference_output,
                     Append(response_list, [text |-> data[k]]))
    ELSE LET output == Append(inference_output, data[k])
             left == [req EXCEPT !.request_list[idx] = @ - 1]
         IN  IF left.request_list[idx] # 0
             THEN postprocess(left, data, k + 1, idx, output, response_list)
             ELSE postprocess(left, data, k + 1, idx + 1, <<>>,
                              Append(response_list,
                                     [id |-> req.request_ids[idx],
                                      outputs |-> output]))

\* the worker calls preprocess on the batch
Preprocess ==
    /\ hd_pc = "preprocess"
    /\ LET r == preprocess(hd_request, hd_batch, Len(hd_batch))
       IN  /\ hd_request' = r.request
           /\ hd_data' = r.input_list
    /\ hd_pc' = "inference"
    /\ UNCHANGED <<hd_batch, hd_responses, hd_handled>>
    /\ UNCHANGED <<envVars, cmpVars, genVars, tsVars, nmVars, ccVars, libVars>>

\* the worker calls inference: one generated text per row, in order.  With
\* no row at all there is nothing to generate from and the call raises.
Inference ==
    /\ hd_pc = "inference"
    /\ hd_data # <<>>
    /\ hd_data' = [k \in 1..Len(hd_data) |-> hd_data[k]]
    /\ hd_pc' = "postprocess"
    /\ UNCHANGED <<hd_batch, hd_request, hd_responses, hd_handled>>
    /\ UNCHANGED <<envVars, cmpVars, genVars, tsVars, nmVars, ccVars, libVars>>

\* the worker calls inference and model.generate raises: handle() ends
\* with the exception, postprocess is not called for this batch
InferenceRaises ==
    /\ hd_pc = "inference"
    /\ hd_pc' = "raised"
    /\ hd_data' = <<>>
    /\ hd_handled' = hd_handled + 1
    /\ UNCHANGED <<hd_batch, hd_request, hd_responses>>
    /\ UNCHANGED <<envVars, cmpVars, genVars, tsVars, nmVars, ccVars, libVars>>

\* the worker calls postprocess on what inference returned
Postprocess ==
    /\ hd_pc = "postprocess"
    /\ LET r == postprocess(hd_request, hd_data, 1, 0, <<>>, <<>>)
       IN  /\ hd_request' = r.request
           /\ hd_responses' = r.response_list
    /\ hd_pc' = "done"
    /\ hd_handled' = hd_handled + 1
    /\ UNCHANGED <<hd_batch, hd_data>>
    /\ UNCHANGED <<envVars, cmpVars, genVars, tsVars, nmVars, ccVars, libVars>>

\* the worker is given the next batch
NextBatch ==
    /\ hd_pc \in {"done", "raised"}
    /\ hd_handled < MaxHandles
    /\ hd_batch' \in Batches
    /\ hd_data' = <<>>
    /\ hd_responses' = <<>>
    /\ hd_pc' = "preprocess"
    /\ UNCHANGED <<hd_request, hd_handled>>
    /\ UNCHANGED <<envVars, cmpVars, genVars, tsVars, nmVars, ccVars, libVars>>

\* a new handler object, given its first batch
HandlerInit ==
    /\ hd_pc = "preprocess"
    /\ hd_batch \in Batches
    /\ hd_request = NewRequest
    /\ hd_data = <<>>
    /\ hd_responses = <<>>
    /\ hd_handled = 0

HandlerIdle ==
    /\ hd_pc = "idle"
    /\ hd_batch = <<>>
    /\ hd_request = NewRequest
    /\ hd_data = <<>>
    /\ hd_responses = <<>>
    /\ hd_handled = 0

(***************************************************************************)
(* Concurrent invocations of generate.py on one mar_output                 *)
(***************************************************************************)
\* the processes that run at the same time
Procs == {1, 2}

\* what the rest of the module leaves alone while these processes run
ccFrame == <<envVars, cmpVars, tsVars, nmVars, hdVars, procVars, params,
             HF_TOKEN, fs0, run, model_path, model_files, mar_output, libVars>>

\* the model_name and mar_name read_config_for_download leaves in gen_model
ArchiveOf(model_name, repo_version, is_custom_model) ==
    [ model_name |-> model_name,
      mar_name |-> get_mar_name(model_name, repo_version, is_custom_model) ]

\* the invocations: gpt2 at two revisions, and a custom model
Invocations ==
    { ArchiveOf(<<"gpt2">>, RevA, FALSE), ArchiveOf(<<"gpt2">>, RevMain, FALSE),
      ArchiveOf(<<"mymodel">>, DefaultRepoVersion, TRUE) }

\* the other processes whose archiver is writing under the directory dir
WritingBeside(p, dir) ==
    {q \in Procs \ {p} : cc_pc[q] = "archiving" /\ cc_tmp_dir[q] = dir}

\* the file an archiver of process p leaves under dir: its own output, or a
\* mixture when another archiver writes the same path
ArchiverFile(p, dir, file, complete) ==
    LET beside == WritingBeside(p, dir)
        before == IF beside # {} /\ file \in DOMAIN tmp_dirs[dir]
                  THEN tmp_dirs[dir][file].by ELSE {}
    IN  [by |-> before \cup {p}, complete |-> complete /\ beside = {}]

CcStep(p, next) ==
    /\ cc_pc' = [cc_pc EXCEPT ![p] = next]
    /\ UNCHANGED cc_exit

CcSysExit(p) ==
    /\ cc_pc' = [cc_pc EXCEPT ![p] = "exited"]
    /\ cc_exit' = [cc_exit EXCEPT ![p] = 1]

\* run_script: gen_model.check_if_mar_exists()
CcCheckIfMarExists ==
    \E p \in Procs :
        /\ cc_pc[p] = "check"
        /\ IF check_if_mar_exists_exits(cc_gm[p])
           THEN CcSysExit(p) /\ UNCHANGED cc_log
           ELSE /\ CcStep(p, "create_mar")
                /\ cc_log' = Append(cc_log, [p |-> p, op |-> "passed"])
        /\ UNCHANGED <<cc_gm, cc_tmp_dir, store, tmp_dirs, ccFrame>>

\* create_mar: create_tmp_model_store
CcCreateTmpModelStore ==
    \E p \in Procs, rand_uuid \in RandSuffixes :
        LET name == TmpDirName(cc_gm[p].mar_name, rand_uuid)
        IN  /\ cc_pc[p] = "create_mar"
            /\ cc_tmp_dir' = [cc_tmp_dir EXCEPT ![p] = name]
            \* os.makedirs(path, exist_ok=True)
            /\ tmp_dirs' = IF name \in DOMAIN tmp_dirs THEN tmp_dirs
                           ELSE tmp_dirs @@ (name :> <<>>)
            /\ CcStep(p, "generate_mars")
            /\ UNCHANGED <<cc_gm, cc_log, store, ccFrame>>

\* generate_mars up to subprocess.check_call: the export path check, and the
\* archiver started
CcGenerateMars ==
    \E p \in Procs :
        /\ cc_pc[p] = "generate_mars"
        /\ IF cc_tmp_dir[p] \notin DOMAIN tmp_dirs
           THEN CcSysExit(p)
           ELSE CcStep(p, "archiving")
        /\ UNCHANGED <<cc_gm, cc_tmp_dir, cc_log, store, tmp_dirs, ccFrame>>

\* the archiver at work: it writes "{model_name}.mar" under the export path
CcArchiverWrites ==
    \E p \in Procs :
        LET dir == cc_tmp_dir[p]
            file == MarFile(cc_gm[p].model_name)
        IN  /\ cc_pc[p] = "archiving"
            /\ dir \in DOMAIN tmp_dirs
            /\ tmp_dirs' = [tmp_dirs EXCEPT ![dir] =
                               (file :> ArchiverFile(p, dir, file, FALSE)) @@ @]
            /\ UNCHANGED <<ccVars, store, ccFrame>>

\* subprocess.check_call returns: the archiver has ended with `status`; it
\* cannot end with status 0 once its export path is gone
CcArchiverExits ==
    \E p \in Procs, status \in 0..1 :
        LET dir == cc_tmp_dir[p]
            file == MarFile(cc_gm[p].model_name)
        IN  /\ cc_pc[p] = "archiving"
            /\ status = 0 => dir \in DOMAIN tmp_dirs
            /\ IF check_call_raises(status)
               THEN /\ CcSysExit(p)
                    /\ UNCHANGED <<tmp_dirs, cc_log>>
               ELSE /\ CcStep(p, "move_mar")
                    /\ cc_log' = Append(cc_log, [p |-> p, op |-> "archived"])
                    /\ tmp_dirs' = [tmp_dirs EXCEPT ![dir] =
                                       (file :> ArchiverFile(p, dir, file, TRUE)) @@ @]
            /\ UNCHANGED <<cc_gm, cc_tmp_dir, store, ccFrame>>

\* move_mar
CcMoveMar ==
    \E p \in Procs :
        LET dir == cc_tmp_dir[p]
            old_filename == MarFile(cc_gm[p].model_name)
            new_filename == MarFile(cc_gm[p].mar_name)
        IN  /\ cc_pc[p] = "move_mar"
            /\ IF dir \notin DOMAIN tmp_dirs \/ old_filename \notin DOMAIN tmp_dirs[dir]
               THEN /\ CcSysExit(p)
                    /\ UNCHANGED <<store, tmp_dirs, cc_log>>
               ELSE /\ CcStep(p, "rm_dir")
                    /\ cc_log' = Append(cc_log, [p |-> p, op |-> "promoted"])
                    /\ store' = (new_filename :> tmp_dirs[dir][old_filename]) @@ store
                    /\ tmp_dirs' = [tmp_dirs EXCEPT ![dir] =
                                        mv_file_leaves(@, old_filename)]
            /\ UNCHANGED <<cc_gm, cc_tmp_dir, ccFrame>>

\* create_mar: rm_dir(tmp_dir); run_script returns True
CcRmDir ==
    \E p \in Procs :
        /\ cc_pc[p] = "rm_dir"
        /\ tmp_dirs' = rm_dir(tmp_dirs, cc_tmp_dir[p])
        /\ cc_pc' = [cc_pc EXCEPT ![p] = "done"]
        /\ cc_exit' = [cc_exit EXCEPT ![p] = 0]
        /\ UNCHANGED <<cc_gm, cc_tmp_dir, cc_log, store, ccFrame>>

\* the processes started together: model_path holds the model files,
\* mar_output exists and holds finished archives or none
ConcInit ==
    /\ params = [model_name |-> <<>>, repo_id |-> None, repo_version |-> None,
                 skip_download |-> TRUE, handler_path |-> <<>>, hf_token |-> None]
    /\ HF_TOKEN = None
    /\ model_path = "dir"
    /\ model_files = Downloaded
    /\ mar_output = "dir"
    /\ store \in UNION {[S -> {[by |-> {}, complete |-> TRUE]}] :
                           S \in SUBSET {MarFile(<<"mymodel">>)}}
    /\ tmp_dirs = <<>>
    /\ fs0 = [model_files |-> model_files, store |-> store, tmp_dirs |-> tmp_dirs]
    /\ run = 1
    /\ ProcStart
    /\ pc = "idle"
    /\ cc_pc = [p \in Procs |-> "check"]
    /\ cc_gm \in [Procs -> Invocations]
    /\ cc_tmp_dir = [p \in Procs |-> None]
    /\ cc_exit = [p \in Procs |-> -1]
    /\ cc_log = <<>>

ConcIdle ==
    /\ cc_pc = [p \in Procs |-> "idle"]
    /\ cc_gm = [p \in Procs |-> ArchiveOf(<<"gpt2">>, RevA, FALSE)]
    /\ cc_tmp_dir = [p \in Procs |-> None]
    /\ cc_exit = [p \in Procs |-> -1]
    /\ cc_log = <<>>

(***************************************************************************)
(* generate.py and torchserve_run.py naming the archive of one model        *)
(***************************************************************************)
\* model_config.json as it may be written: gpt2 pinned to a commit, pinned to
\* a branch, or with no repo_version (null)
Catalogs == {[model_config EXCEPT !.gpt2.repo_version = v] : v \in {RevA, RevMain, None}}

\* what both tools are called with: --model_name, --repo_version (None:
\* omitted) and, for generate.py, --repo_id and --skip_download
LookupArgs ==
    [ model_name : {<<"gpt2">>, <<"llama2_7b">>, <<"mymodel">>},
      repo_version : {None, RevA, RevB, RevMain, RevBad},
      repo_id : {None, Gpt2Repo},
      skip_download : BOOLEAN ]

\* `model_name in models`
InModels(models, model_name) == Len(model_name) = 1 /\ model_name[1] \in DOMAIN models

\* generate.py read_config_for_download on the catalog `models`:
\* gen_model.mar_utils.mar_name, or None when the function exits.  The
\* caller holds a token the hub accepts and a model_path that is not empty.
generate_mar_name(models, a) ==
    LET gm0 == set_values([ model_name |-> a.model_name,
                            repo_id |-> a.repo_id,
                            repo_version |-> a.repo_version,
                            skip_download |-> a.skip_download,
                            handler_path |-> <<>>,
                            hf_token |-> Tok ], None)
        validated(gm) ==
            IF \/ validate_hf_token_exits(gm)
               \/ ~HubListsCommits(gm.repo_id, gm.repo_version, gm.hf_token)
            THEN None
            ELSE get_mar_name(gm.model_name, validate_commit_info(gm).repo_version,
                              gm.is_custom_model)
    IN  IF InModels(models, gm0.model_name)
        THEN LET entry == models[gm0.model_name[1]]
             IN  validated([gm0 EXCEPT
                     !.is_custom_model = FALSE,
                     !.repo_id = entry.repo_id,
                     !.repo_version = IF Falsy(@) THEN entry.repo_version ELSE @])
        ELSE LET gm1 == [gm0 EXCEPT !.is_custom_model = TRUE]
             IN  IF gm1.skip_download
                 THEN get_mar_name(gm1.model_name,
                                   IF Falsy(gm1.repo_version)
                                   THEN DefaultRepoVersion ELSE gm1.repo_version,
                                   TRUE)
                 ELSE IF Falsy(gm1.repo_id) THEN None ELSE validated(gm1)

\* generate.py move_mar: the file name of dst under mar_output
move_mar_dst(mar_name) == MarFile(mar_name)

\* torchserve_run.py: --repo_version defaults to ""
RunRepoVersion(repo_version) == IF repo_version = None THEN <<>> ELSE repo_version

\* torchserve_run.py read_config_for_inference on the catalog `models`, then
\* set_mar_filepath: the file name of params.mar under model_store
run_mar_filepath(models, a) ==
    LET given == RunRepoVersion(a.repo_version)
        is_custom_model == ~InModels(models, a.model_name)
        repo_version ==
            IF /\ ~is_custom_model
               /\ ~Falsy(models[a.model_name[1]].repo_version)
               /\ Falsy(given)
            THEN models[a.model_name[1]].repo_version
            ELSE given
    IN  MarFile(get_mar_name(a.model_name, repo_version, is_custom_model))

\* generate.py runs to its end with the arguments lk_args
LkGenerate ==
    /\ lk_mar = None
    /\ lk_mar' = LET mar_name == generate_mar_name(lk_models, lk_args)
                 IN  IF mar_name = None THEN <<"exit">> ELSE move_mar_dst(mar_name)
    /\ UNCHANGED <<lk_models, lk_args, lk_path>>
    /\ UNCHANGED <<appVars, igVars, rtVars, cfVars, obVars, mnVars>>

\* torchserve_run.py computes params.mar with the same arguments
LkSetMarFilepath ==
    /\ lk_path = None
    /\ lk_path' = run_mar_filepath(lk_models, lk_args)
    /\ UNCHANGED <<lk_models, lk_args, lk_mar>>
    /\ UNCHANGED <<appVars, igVars, rtVars, cfVars, obVars, mnVars>>

LookupInit ==
    /\ lk_models \in Catalogs
    /\ lk_args \in LookupArgs
    /\ lk_mar = None
    /\ lk_path = None

LookupIdle ==
    /\ lk_models = model_config
    /\ lk_args = [ model_name |-> <<>>, repo_version |-> None,
                   repo_id |-> None, skip_download |-> FALSE ]
    /\ lk_mar = None
    /\ lk_path = None

(***************************************************************************)
(* generate.py run_download on one repository                               *)
(***************************************************************************)
\* the files a repository is listed with: a configuration file, the two
\* preferred weight formats and two of the other formats
IgnoreFileNames ==
    { <<"config", ".json">>, <<"model", ".safetensors">>,
      <<"pytorch_model", ".bin">>, <<"model", ".pt">>, <<"tf_model", ".h5">> }

\* the lists over S of length at most n in which no element comes twice: a
\* listing names each path once
DistinctSeqs(S, n) ==
    {q \in SeqsUpTo(S, n) : \A i, j \in DOMAIN q : i # j => q[i] # q[j]}

\* run_download: get_ignore_pattern_list on the listing of the repository,
\* then snapshot_download with these patterns into the empty model_path
IgRunDownload ==
    /\ ig_pc = "start"
    /\ ig_pc' = "downloaded"
    /\ ig_patterns' = get_ignore_pattern_list(ig_listing)
    /\ ig_files' = snapshot_download(ig_listing, get_ignore_pattern_list(ig_listing))
    /\ UNCHANGED ig_listing
    /\ UNCHANGED <<appVars, lkVars, rtVars, cfVars, obVars, mnVars>>

IgnoreInit ==
    /\ ig_listing \in DistinctSeqs(IgnoreFileNames, MaxListLen)
    /\ ig_pc = "start"
    /\ ig_patterns = <<>>
    /\ ig_files = {}

IgnoreIdle ==
    /\ ig_listing = <<>>
    /\ ig_pc = "start"
    /\ ig_patterns = <<>>
    /\ ig_files = {}

(***************************************************************************)
(* download.py: a download run, then a skip-download run on its directory   *)
(***************************************************************************)
\* download.py get_ignore_pattern_list(extension_list)
dl_get_ignore_pattern_list(extension_list) ==
    [i \in 1..Len(extension_list) |-> <<"*">> \o extension_list[i]]

\* the orders in which get_all_files_in_directory may list the files S
Orderings(S) == {q \in DistinctSeqs(S, Cardinality(S)) : Len(q) = Cardinality(S)}

\* download.py run_download: snapshot_download of the repository into the
\* empty model_path, with the patterns of FILE_EXTENSIONS_TO_IGNORE
RtRunDownload ==
    /\ ~rt_downloaded
    /\ verdict = "none"
    /\ local_files = <<>>
    /\ local_files' \in Orderings(snapshot_download(repo_files,
                            dl_get_ignore_pattern_list(FILE_EXTENSIONS_TO_IGNORE)))
    /\ rt_downloaded' = TRUE
    /\ UNCHANGED <<repo_files, verdict>>
    /\ UNCHANGED <<envVars, genVars, tsVars, nmVars, hdVars, ccVars>>
    /\ UNCHANGED <<lkVars, igVars, cfVars, obVars, mnVars>>

\* a repository listing and an empty model_path
RoundTripInit ==
    /\ local_files = <<>>
    /\ repo_files \in DistinctSeqs(FileNames, MaxListLen)
    /\ verdict = "none"
    /\ rt_downloaded = FALSE

RoundTripIdle == rt_downloaded = FALSE

(***************************************************************************)
(* tsutils.py set_config_properties                                         *)
(***************************************************************************)
RegistrationKeys ==
    {"initial_workers", "batch_size", "max_batch_delay", "response_timeout"}

\* the values model_config.json gives a registration parameter
RegistrationValues == {0, 2}

\* what model_config.json holds for data_model.model_name: nothing (a custom
\* model), an entry without registration_params, or an entry whose
\* registration_params sets some of the four keys
RegistrationEntries ==
    {[in_catalog |-> c, has_params |-> FALSE, params |-> <<>>] : c \in BOOLEAN}
        \cup {[in_catalog |-> TRUE, has_params |-> TRUE, params |-> f] :
                 f \in UNION {[S -> RegistrationValues] : S \in SUBSET RegistrationKeys}}

\* tsutils.py get_params_for_registration raises KeyError:
\* model_config[model_name]["registration_params"] of an entry without it
get_params_for_registration_raises(entry) == entry.in_catalog /\ ~entry.has_params

\* tsutils.py get_params_for_registration: each of the four values, <<v>>
\* when the catalog sets it and <<>> for None
get_params_for_registration(entry) ==
    [k \in RegistrationKeys |->
        IF entry.in_catalog /\ k \in DOMAIN entry.params
        THEN <<entry.params[k]>> ELSE <<>>]

\* Python's `value or default` on an int or None
or_default(value, default) ==
    IF value = <<>> \/ value[1] = 0 THEN default ELSE value[1]

\* the registration block set_config_properties appends
config_info(p) ==
    [ minWorkers |-> or_default(p["initial_workers"], 1),
      maxWorkers |-> or_default(p["initial_workers"], 1),
      batchSize |-> or_default(p["batch_size"], 1),
      maxBatchDelay |-> or_default(p["max_batch_delay"], 1),
      responseTimeout |-> or_default(p["response_timeout"], 120) ]

\* the lines of the template config.properties
TemplateLines == <<"inference_address", "management_address">>

\* set_config_properties(data_model): the template is copied into the gen
\* folder, then the registration block is appended to the copy
SetConfigProperties ==
    /\ ~cf_config.exists
    /\ cf_raised = ""
    /\ IF get_params_for_registration_raises(cf_model)
       THEN /\ cf_config' = [exists |-> TRUE, lines |-> cf_template, blocks |-> <<>>]
            /\ cf_raised' = "KeyError"
       ELSE /\ cf_config' =
                [ exists |-> TRUE, lines |-> cf_template,
                  blocks |-> <<config_info(get_params_for_registration(cf_model))>> ]
            /\ cf_raised' = ""
    /\ UNCHANGED <<cf_model, cf_template>>
    /\ UNCHANGED <<appVars, lkVars, igVars, rtVars, obVars, mnVars>>

ConfigInit ==
    /\ cf_model \in RegistrationEntries
    /\ cf_template = TemplateLines
    /\ cf_config = [exists |-> FALSE, lines |-> <<>>, blocks |-> <<>>]
    /\ cf_raised = ""

ConfigIdle ==
    /\ cf_model = [in_catalog |-> FALSE, has_params |-> FALSE, params |-> <<>>]
    /\ cf_template = TemplateLines
    /\ cf_config = [exists |-> FALSE, lines |-> <<>>, blocks |-> <<>>]
    /\ cf_raised = ""

(***************************************************************************)
(* GenerateDataModel and InferenceDataModel objects of one process          *)
(***************************************************************************)
\* Most data model objects one process builds.
MaxObjects == 2

\* the attributes bound in the class bodies to one object each:
\* `mar_utils = MarUtils()`, `repo_info = RepoInfo()`, `ts_data =
\* TorchserveStartData()`
ClassAttrs ==
    [ GenerateDataModel |-> {"repo_info", "mar_utils"},
      InferenceDataModel |-> {"ts_data"} ]

\* the object a class attribute is bound to when the module is imported
ClassObject(class, attr) == <<class, attr>>

\* obj.attr: the instance's own attribute if it has one, else the class's
lookup(obj, attr) ==
    IF attr \in DOMAIN obj.dict THEN obj.dict[attr] ELSE ClassObject(obj.class, attr)

\* RepoInfo(), MarUtils() and TorchserveStartData(): every field str()
NewRepoInfo == [repo_id |-> <<>>, repo_version |-> <<>>, hf_token |-> <<>>]
NewMarUtils ==
    [mar_output |-> <<>>, mar_name |-> <<>>, model_path |-> <<>>, handler_path |-> <<>>]
NewTorchserveStartData ==
    [ts_log_file |-> <<>>, ts_log_config |-> <<>>, ts_config_file |-> <<>>,
     ts_model_store |-> <<>>]

\* the argparse.Namespace objects GenerateDataModel is built from
ObGenParams ==
    [ model_name : {<<"gpt2">>, <<"mymodel">>},
      repo_id : {None, Gpt2Repo},
      repo_version : {None},
      hf_token : {None},
      handler_path : {<<>>},
      model_path : {<<"/models/a">>, <<"/models/b">>},
      mar_output : {<<"/store">>} ]

\* the argparse.Namespace objects InferenceDataModel is built from
ObInfParams ==
    [ model_name : {<<"gpt2">>},
      gen_folder_name : {<<"gen">>, <<"gen2">>},
      mar : {<<"/store1">>, <<"/store2">>} ]

\* GenerateDataModel(params): __init__ calls set_values, which assigns the
\* model's own attributes and the fields of self.repo_info and
\* self.mar_utils
ObNewGenerateDataModel ==
    \E p \in ObGenParams :
        /\ Len(ob_objects) < MaxObjects
        /\ LET obj == [ class |-> "GenerateDataModel", dict |-> <<>>,
                        own |-> [model_name |-> p.model_name] ]
               ri == lookup(obj, "repo_info")
               mu == lookup(obj, "mar_utils")
               heap == [ob_heap EXCEPT
                           ![ri] = [@ EXCEPT !.hf_token = p.hf_token,
                                             !.repo_id = p.repo_id,
                                             !.repo_version = p.repo_version],
                           ![mu] = [@ EXCEPT !.handler_path = p.handler_path,
                                             !.model_path = p.model_path,
                                             !.mar_output = p.mar_output]]
           IN  /\ ob_heap' = heap
               /\ ob_objects' = Append(ob_objects, obj)
               /\ ob_written' = Append(ob_written,
                                       [repo_info |-> heap[ri], mar_utils |-> heap[mu]])
        /\ UNCHANGED <<appVars, lkVars, igVars, rtVars, cfVars, mnVars>>

\* generate.py read_config_for_download on the object i:
\* `gen_model.repo_info.repo_version = ...` and, at its end,
\* `gen_model.mar_utils.mar_name = get_mar_name(...)`
ObReadConfigForDownload ==
    \E i \in DOMAIN ob_objects, v \in {RevA, RevB} :
        /\ ob_objects[i].class = "GenerateDataModel"
        /\ LET obj == ob_objects[i]
               ri == lookup(obj, "repo_info")
               mu == lookup(obj, "mar_utils")
               heap == [ob_heap EXCEPT
                           ![ri] = [@ EXCEPT !.repo_version = v],
                           ![mu] = [@ EXCEPT !.mar_name =
                                        get_mar_name(obj.own.model_name, v, FALSE)]]
           IN  /\ ob_heap' = heap
               /\ ob_written' = [ob_written EXCEPT
                                    ![i] = [repo_info |-> heap[ri], mar_utils |-> heap[mu]]]
        /\ UNCHANGED ob_objects
        /\ UNCHANGED <<appVars, lkVars, igVars, rtVars, cfVars, mnVars>>

\* InferenceDataModel(params): __init__ calls set_data_model, which assigns
\* the model's own attributes only
ObNewInferenceDataModel ==
    \E p \in ObInfParams :
        /\ Len(ob_objects) < MaxObjects
        /\ LET obj == [ class |-> "InferenceDataModel", dict |-> <<>>,
                        own |-> [ model_name |-> p.model_name,
                                  gen_folder |-> p.gen_folder_name,
                                  mar_filepath |-> p.mar ] ]
           IN  /\ ob_objects' = Append(ob_objects, obj)
               /\ ob_written' = Append(ob_written,
                                       [ts_data |-> ob_heap[lookup(obj, "ts_data")]])
        /\ UNCHANGED ob_heap
        /\ UNCHANGED <<appVars, lkVars, igVars, rtVars, cfVars, mnVars>>

\* InferenceDataModel.prepare_settings on the object i: the fields of
\* self.ts_data
ObPrepareSettings ==
    \E i \in DOMAIN ob_objects :
        /\ ob_objects[i].class = "InferenceDataModel"
        /\ LET obj == ob_objects[i]
               td == lookup(obj, "ts_data")
               heap == [ob_heap EXCEPT
                           ![td] = [ ts_log_file |-> obj.own.gen_folder \o <<"/logs/ts_console.log">>,
                                     ts_log_config |-> <<"../log4j2.xml">>,
                                     ts_config_file |-> <<"../config.properties">>,
                                     ts_model_store |-> obj.own.mar_filepath ]]
           IN  /\ ob_heap' = heap
               /\ ob_written' = [ob_written EXCEPT ![i] = [ts_data |-> heap[td]]]
        /\ UNCHANGED ob_objects
        /\ UNCHANGED <<appVars, lkVars, igVars, rtVars, cfVars, mnVars>>

\* the classes are defined, no object is built yet
ObjectsInit ==
    /\ ob_heap = [a \in {ClassObject("GenerateDataModel", "repo_info"),
                         ClassObject("GenerateDataModel", "mar_utils"),
                         ClassObject("InferenceDataModel", "ts_data")} |->
                     IF a[2] = "repo_info" THEN NewRepoInfo
                     ELSE IF a[2] = "mar_utils" THEN NewMarUtils
                     ELSE NewTorchserveStartData]
    /\ ob_objects = <<>>
    /\ ob_written = <<>>

ObjectsIdle == ObjectsInit

(***************************************************************************)
(* marsgen.py: generate_mars and its progress thread                        *)
(***************************************************************************)
\* Largest size the archiver's file grows to, in blocks.
MaxFileSize == 2

\* generate_mars: mar_progress_thread.start()
MnStartThread ==
    /\ mn_main = "start"
    /\ mn_main' = "check_call"
    /\ mn_pc' = "init"
    /\ UNCHANGED <<mn_stop, mn_file, mn_size, mn_error>>
    /\ UNCHANGED <<appVars, lkVars, igVars, rtVars, cfVars, obVars>>

\* torch-model-archiver, while check_call waits for it: it writes its file
MnArchiverWrites ==
    /\ mn_main = "check_call"
    /\ IF mn_file = <<>> THEN TRUE ELSE mn_file[1] < MaxFileSize
    /\ mn_file' = IF mn_file = <<>> THEN <<1>> ELSE <<mn_file[1] + 1>>
    /\ UNCHANGED <<mn_main, mn_pc, mn_stop, mn_size, mn_error>>
    /\ UNCHANGED <<appVars, lkVars, igVars, rtVars, cfVars, obVars>>

\* check_call returns (status 0), or raises CalledProcessError and the
\* except branch calls sys.exit(1)
MnCheckCallEnds ==
    /\ mn_main = "check_call"
    /\ \E status \in {0, 1} :
          mn_main' = IF check_call_raises(status) THEN "sys_exit" ELSE "set"
    /\ UNCHANGED <<mn_pc, mn_stop, mn_file, mn_size, mn_error>>
    /\ UNCHANGED <<appVars, lkVars, igVars, rtVars, cfVars, obVars>>

\* stop_monitoring.set()
MnSetStop ==
    /\ mn_main = "set"
    /\ mn_main' = "join"
    /\ mn_stop' = TRUE
    /\ UNCHANGED <<mn_pc, mn_file, mn_size, mn_error>>
    /\ UNCHANGED <<appVars, lkVars, igVars, rtVars, cfVars, obVars>>

\* mar_progress_thread.join() returns once the thread has ended
MnJoin ==
    /\ mn_main = "join"
    /\ mn_pc \in {"done", "died"}
    /\ mn_main' = "returned"
    /\ UNCHANGED <<mn_pc, mn_stop, mn_file, mn_size, mn_error>>
    /\ UNCHANGED <<appVars, lkVars, igVars, rtVars, cfVars, obVars>>

\* monitor_marfile_size up to its loop: the print and the progress bar
MnInit ==
    /\ mn_pc = "init"
    /\ mn_pc' = "test"
    /\ UNCHANGED <<mn_main, mn_stop, mn_file, mn_size, mn_error>>
    /\ UNCHANGED <<appVars, lkVars, igVars, rtVars, cfVars, obVars>>

\* `while not stop_monitoring.is_set()`
MnTest ==
    /\ mn_pc = "test"
    /\ mn_pc' = IF mn_stop THEN "update" ELSE "getsize"
    /\ UNCHANGED <<mn_main, mn_stop, mn_file, mn_size, mn_error>>
    /\ UNCHANGED <<appVars, lkVars, igVars, rtVars, cfVars, obVars>>

\* the body of the loop: os.path.getsize, 0 on FileNotFoundError, then the
\* progress bar and time.sleep(2)
MnLoopBody ==
    /\ mn_pc = "getsize"
    /\ mn_size' = IF mn_file = <<>> THEN <<0>> ELSE mn_file
    /\ mn_pc' = "test"
    /\ UNCHANGED <<mn_main, mn_stop, mn_file, mn_error>>
    /\ UNCHANGED <<appVars, lkVars, igVars, rtVars, cfVars, obVars>>

\* after the loop: progress_bar.update(approx_marfile_size -
\* current_file_size), which reads current_file_size, and progress_bar.close()
MnFinalUpdate ==
    /\ mn_pc = "update"
    /\ IF mn_size = <<>>
       THEN /\ mn_pc' = "died"
            /\ mn_error' = "UnboundLocalError"
       ELSE /\ mn_pc' = "print"
            /\ UNCHANGED mn_error
    /\ UNCHANGED <<mn_main, mn_stop, mn_file, mn_size>>
    /\ UNCHANGED <<appVars, lkVars, igVars, rtVars, cfVars, obVars>>

\* the last print: os.path.getsize(file_path) outside any try
MnFinalPrint ==
    /\ mn_pc = "print"
    /\ IF mn_file = <<>>
       THEN /\ mn_pc' = "died"
            /\ mn_error' = "FileNotFoundError"
       ELSE /\ mn_pc' = "done"
            /\ UNCHANGED mn_error
    /\ UNCHANGED <<mn_main, mn_stop, mn_file, mn_size>>
    /\ UNCHANGED <<appVars, lkVars, igVars, rtVars, cfVars, obVars>>

\* generate_mars is about to start the thread; the staging directory is new
MonitorInit ==
    /\ mn_main = "start"
    /\ mn_pc = "none"
    /\ mn_stop = FALSE
    /\ mn_file = <<>>
    /\ mn_size = <<>>
    /\ mn_error = ""

MonitorIdle == MonitorInit

\* the programs run as a whole are not run
AppIdle ==
    EnvIdle /\ CmpIdle /\ GenIdle /\ TsIdle /\ NamerIdle /\ HandlerIdle /\ ConcIdle

\* none of the functions and objects exercised on their own is used
LibIdle ==
    LookupIdle /\ IgnoreIdle /\ RoundTripIdle /\ ConfigIdle /\ ObjectsIdle /\ MonitorIdle


(***************************************************************************)
(* Specifications                                                          *)
(***************************************************************************)
Init == EnvIdle /\ CmpIdle /\ GenInit /\ TsIdle /\ NamerIdle /\ HandlerIdle /\ ConcIdle /\ LibIdle

Next ==
    \/ ReadConfigForDownload
    \/ CheckPaths
    \/ RunDownload
    \/ CreateTmpModelStore
    \/ GenerateMars
    \/ ArchiverWrites
    \/ ArchiverExits
    \/ MoveMar
    \/ RmDir
    \/ NewRun

\* runs of generate.py, one after the other on one file system
Spec == Init /\ [][Next]_vars

EnvNext == SetModelParams

\* calls of set_model_params in one process
InitEnv == EnvInit /\ CmpIdle /\ GenIdle /\ TsIdle /\ NamerIdle /\ HandlerIdle /\ ConcIdle /\ LibIdle

SpecEnv == InitEnv /\ [][EnvNext]_vars

CmpNext == CheckIfModelFilesExist

\* the file-set validator on two listings
InitValidator == EnvIdle /\ CmpInit /\ GenIdle /\ TsIdle /\ NamerIdle /\ HandlerIdle /\ ConcIdle /\ LibIdle

SpecValidator == InitValidator /\ [][CmpNext]_vars

TsNext ==
    \/ TsFirstCleanup
    \/ TsRunInference
    \/ StartTsServer
    \/ RegisterModel
    \/ ExecuteInference
    \/ TsFinally

\* the inference run of torchserve_run.py
InitRun == EnvIdle /\ CmpIdle /\ GenIdle /\ TsInit /\ NamerIdle /\ HandlerIdle /\ ConcIdle /\ LibIdle

SpecRun == InitRun /\ [][TsNext]_vars

UnregisterNext == UnregisterModel

\* calls of unregister_model in one process
InitUnregister == EnvIdle /\ CmpIdle /\ GenIdle /\ UnregisterInit /\ NamerIdle /\ HandlerIdle /\ ConcIdle /\ LibIdle

SpecUnregister == InitUnregister /\ [][UnregisterNext]_vars

NamerNext == GetMarName

\* calls of get_mar_name
InitNamer == EnvIdle /\ CmpIdle /\ GenIdle /\ TsIdle /\ NamerInit /\ HandlerIdle /\ ConcIdle /\ LibIdle

SpecNamer == InitNamer /\ [][NamerNext]_vars

HandlerNext ==
    \/ Preprocess
    \/ Inference
    \/ InferenceRaises
    \/ Postprocess
    \/ NextBatch

\* one handler object, batch after batch
InitHandler == EnvIdle /\ CmpIdle /\ GenIdle /\ TsIdle /\ NamerIdle /\ HandlerInit /\ ConcIdle /\ LibIdle

SpecHandler == InitHandler /\ [][HandlerNext]_vars

ConcNext ==
    \/ CcCheckIfMarExists
    \/ CcCreateTmpModelStore
    \/ CcGenerateMars
    \/ CcArchiverWrites
    \/ CcArchiverExits
    \/ CcMoveMar
    \/ CcRmDir

\* two invocations of generate.py at the same time on one mar_output
InitConcurrent ==
    EnvIdle /\ CmpIdle /\ ConcInit /\ TsIdle /\ NamerIdle /\ HandlerIdle /\ LibIdle

SpecConcurrent == InitConcurrent /\ [][ConcNext]_vars

LookupNext ==
    \/ LkGenerate
    \/ LkSetMarFilepath

\* generate.py, then torchserve_run.py, on one catalog with one model name
\* and one revision argument
InitLookup ==
    AppIdle /\ LookupInit /\ IgnoreIdle /\ RoundTripIdle /\ ConfigIdle /\ ObjectsIdle /\ MonitorIdle

SpecLookup == InitLookup /\ [][LookupNext]_vars

IgnoreNext == IgRunDownload

\* generate.py run_download on one repository
InitIgnore ==
    AppIdle /\ LookupIdle /\ IgnoreInit /\ RoundTripIdle /\ ConfigIdle /\ ObjectsIdle /\ MonitorIdle

SpecIgnore == InitIgnore /\ [][IgnoreNext]_vars

RoundTripNext ==
    \/ RtRunDownload
    \/ CheckIfModelFilesExist

\* download.py: a download run, then the validation of a skip-download run
InitRoundTrip ==
    /\ EnvIdle /\ RoundTripInit /\ GenIdle /\ TsIdle /\ NamerIdle /\ HandlerIdle /\ ConcIdle
    /\ LookupIdle /\ IgnoreIdle /\ ConfigIdle /\ ObjectsIdle /\ MonitorIdle

SpecRoundTrip == InitRoundTrip /\ [][RoundTripNext]_vars

ConfigNext == SetConfigProperties

\* one call of set_config_properties
InitConfig ==
    AppIdle /\ LookupIdle /\ IgnoreIdle /\ RoundTripIdle /\ ConfigInit /\ ObjectsIdle /\ MonitorIdle

SpecConfig == InitConfig /\ [][ConfigNext]_vars

ObjectsNext ==
    \/ ObNewGenerateDataModel
    \/ ObReadConfigForDownload
    \/ ObNewInferenceDataModel
    \/ ObPrepareSettings

\* the data model objects of one process
InitObjects ==
    AppIdle /\ LookupIdle /\ IgnoreIdle /\ RoundTripIdle /\ ConfigIdle /\ ObjectsInit /\ MonitorIdle

SpecObjects == InitObjects /\ [][ObjectsNext]_vars

MonitorNext ==
    \/ MnStartThread
    \/ MnArchiverWrites
    \/ MnCheckCallEnds
    \/ MnSetStop
    \/ MnJoin
    \/ MnInit
    \/ MnTest
    \/ MnLoopBody
    \/ MnFinalUpdate
    \/ MnFinalPrint

\* generate_mars from the start of its progress thread on
InitMonitor ==
    AppIdle /\ LookupIdle /\ IgnoreIdle /\ RoundTripIdle /\ ConfigIdle /\ ObjectsIdle /\ MonitorInit

SpecMonitor == InitMonitor /\ [][MonitorNext]_vars

(***************************************************************************)
(* Properties of the generate run (specification Spec)                     *)
(***************************************************************************)
\* run_script has returned or raised
Ended == pc \in {"done", "exited"}

\* "{archive_id}.mar" of this run
FinalName == MarFile(gen_model.mar_name)

\* "{model_name}.mar", the file the archiver is told to write
ArchiverOutput == MarFile(params.model_name)

\* the staging directory this run created is still in mar_output
StagingLeft == tmp_dir # None /\ tmp_dir \in DOMAIN tmp_dirs

\* this run has put nothing under "{archive_id}.mar"
NothingPromoted ==
    FinalName \in DOMAIN store =>
        FinalName \in DOMAIN fs0.store /\ store[FinalName] = fs0.store[FinalName]

\* C2: if the archiver exits with a non-zero status, then when the run has
\* ended its exit code is 1, the output directory holds no "{archive_id}.mar"
\* created by this run, and the staging directory of this run no longer exists.
C2_ArchiverFailureCleansUp ==
    (Ended /\ archiver.status = "nonzero") =>
        /\ exit_code = 1
        /\ NothingPromoted
        /\ ~StagingLeft

\* C3 as stated: if "{archive_id}.mar" exists when run_script is called, the
\* run ends with exit code 1 at the existence check, with no download, no
\* staging directory, no archiver call and the archive untouched.
C3_ExistingArchiveEndsAtExistenceCheck ==
    (Ended /\ gen_model.mar_name # <<>> /\ FinalName \in DOMAIN fs0.store) =>
        /\ exit_code = 1
        /\ exit_at = "check_if_mar_exists"
        /\ ~download_called
        /\ tmp_dir = None
        /\ ~archiver.invoked
        /\ store = fs0.store

\* an earlier run of this invocation returned successfully
EarlierRunSucceeded == \E f \in DOMAIN fs0.store : fs0.store[f].by >= 1

\* C3 as amended: if the model resolves and "{archive_id}.mar" exists when
\* run_script is called, the run ends with exit code 1 at the model_path
\* check when model_path is no directory and at the existence check
\* otherwise; it downloads nothing, creates no staging directory, never
\* calls the archiver and leaves the file system as it was.  A second run of
\* an invocation that succeeded ends with exit code 1 at the existence check.
C3_ExistingArchiveStopsTheRun ==
    /\ (Ended /\ gen_model.mar_name # <<>> /\ FinalName \in DOMAIN fs0.store) =>
          /\ exit_code = 1
          /\ exit_at = IF model_path = "dir" THEN "check_if_mar_exists" ELSE "model_path"
          /\ ~download_called
          /\ tmp_dir = None
          /\ ~archiver.invoked
          /\ store = fs0.store
          /\ tmp_dirs = fs0.tmp_dirs
          /\ model_files = fs0.model_files
    /\ (Ended /\ EarlierRunSucceeded) =>
          /\ exit_code = 1
          /\ exit_at = "check_if_mar_exists"
          /\ store = fs0.store

\* C3, its case: the second run of an invocation whose first run succeeded
\* has ended at the existence check.
C3_Witness ==
    /\ run = 2
    /\ Ended
    /\ EarlierRunSucceeded
    /\ gen_model.mar_name # <<>>
    /\ FinalName \in DOMAIN fs0.store
    /\ exit_at = "check_if_mar_exists"

\* the revision a catalog run resolves to: the caller's, else the catalog's
CatalogRevision ==
    IF Falsy(params.repo_version)
    THEN model_config[params.model_name[1]].repo_version
    ELSE params.repo_version

\* the first seven characters of a revision (all of it when it is shorter)
FirstSeven(rev) == [i \in 1..(IF Len(rev) < 7 THEN Len(rev) ELSE 7) |-> rev[i]]

\* C4: after run_script returns successfully for a catalog model, the output
\* directory holds "{model_name}_{first 7 characters of the revision}.mar",
\* the finished file of this run's archiver, moved out of the staging
\* directory (it is no longer there once moved), and the staging directory
\* is deleted: mar_output holds no directory that this run left.
C4_SuccessPromotesArchive ==
    /\ (pc = "done" /\ InCatalog(params.model_name)) =>
          LET final == params.model_name \o <<"_">>
                           \o FirstSeven(CatalogRevision) \o <<".mar">>
          IN  /\ final \in DOMAIN store
              /\ store[final] = [by |-> run, complete |-> TRUE]
              /\ ~StagingLeft
              /\ DOMAIN tmp_dirs \subseteq DOMAIN fs0.tmp_dirs
    /\ pc = "rm_dir" => ArchiverOutput \notin DOMAIN tmp_dirs[tmp_dir]

\* C4, its case: a catalog run with a revision longer than seven characters
\* has returned successfully.
C4_Witness ==
    /\ pc = "done"
    /\ InCatalog(params.model_name)
    /\ Len(CatalogRevision) > 7
    /\ exit_code = 0

\* C5: in every state of a run, every file of the output directory is a
\* finished archive; a file that was not there when the run started is
\* "{archive_id}.mar", put there after this run's archiver exited with
\* status 0; and while the archiver runs the output directory's files are
\* those the run started with (the archiver writes in staging only).
C5_NoPartialArchiveUnderFinalName ==
    /\ \A f \in DOMAIN store :
          /\ store[f].complete
          /\ (f \notin DOMAIN fs0.store \/ store[f] # fs0.store[f]) =>
                /\ f = FinalName
                /\ archiver.status = "zero"
                /\ store[f] = [by |-> run, complete |-> TRUE]
                /\ pc \in {"rm_dir", "done"}
    /\ pc \in {"generate_mars", "archiving", "move_mar"} => store = fs0.store

\* C5, its case: a custom model, whose archive_id is the archiver's output
\* name; the archiver is running and has written a part of its file, in
\* staging, and no file of that name is in the output directory.
C5_Witness ==
    /\ pc = "archiving"
    /\ gen_model.is_custom_model
    /\ FinalName = ArchiverOutput
    /\ ArchiverOutput \in DOMAIN tmp_dirs[tmp_dir]
    /\ ~tmp_dirs[tmp_dir][ArchiverOutput].complete
    /\ FinalName \notin DOMAIN store

\* C6: if the archiver exits with status 0 but "{staging}/{model_name}.mar"
\* does not exist, the run fails with exit code 1, nothing is placed under
\* "{archive_id}.mar", and the staging directory is deleted.
C6_MissingOutputCleansUp ==
    (Ended /\ archiver.status = "zero" /\ exit_at = "mar_missing") =>
        /\ exit_code = 1
        /\ NothingPromoted
        /\ ~StagingLeft

\* the handler path in effect: --handler_path, else the catalog's handler,
\* else handler.py
HandlerInEffect ==
    IF ~Falsy(params.handler_path) THEN params.handler_path
    ELSE IF InCatalog(params.model_name)
         THEN model_config[params.model_name[1]].handler
         ELSE <<"handler.py">>

\* C7: if the handler path in effect is not an existing file, the run ends
\* with exit code 1, the archiver is never invoked, no archive appears in
\* the output directory and no staging directory is left behind.
C7_InvalidHandlerLeavesNothing ==
    (Ended /\ HandlerInEffect \notin HandlerFiles) =>
        /\ exit_code = 1
        /\ ~archiver.invoked
        /\ store = fs0.store
        /\ ~StagingLeft

\* a list of the elements of a set, as a directory listing gives them
RECURSIVE ListOf(_)
ListOf(S) ==
    IF S = {} THEN <<>>
    ELSE LET x == CHOOSE y \in S : TRUE IN <<x>> \o ListOf(S \ {x})

\* the remote listing of the run's repository after extension filtering
RemoteAfterFiltering ==
    LET listing == HubFiles(gen_model.repo_id)
    IN  FilterSeq(listing, snapshot_download(listing, get_ignore_pattern_list(listing)))

\* C9: in every run other than a custom model with skip-download, a staging
\* directory is created and the archiver is invoked only when the local file
\* set equals the remote listing after extension filtering.
C9_ArchiveOnlyVerifiedFileSet ==
    ((tmp_dir # None \/ archiver.invoked)
        /\ ~(gen_model.is_custom_model /\ gen_model.skip_download)) =>
        compare_lists(ListOf(model_files), RemoteAfterFiltering)

(***************************************************************************)
(* Properties of set_model_params (specification SpecEnv)                  *)
(***************************************************************************)
\* C1: after set_model_params(m) returns, for every model name m (in the
\* catalog or not) and every prior environment, each of NAI_TEMPERATURE,
\* NAI_REP_PENALTY, NAI_TOP_P and NAI_MAX_TOKENS holds the string of m's own
\* value when m is in the catalog and its model_params define the parameter,
\* and is not set otherwise.
C1_EnvironmentHoldsOnlyThisModelsParams ==
    configured # None =>
        \A n \in DOMAIN generation_params :
            LET m == configured[1]
                defined == /\ m \in DOMAIN model_config
                           /\ "model_params" \in DOMAIN model_config[m]
                           /\ generation_params[n] \in DOMAIN model_config[m].model_params
            IN  IF defined
                THEN /\ n \in DOMAIN environ
                     /\ environ[n] = ToStr(model_config[m].model_params[generation_params[n]])
                ELSE n \notin DOMAIN environ

(***************************************************************************)
(* Properties of the file-set validator (specification SpecValidator)      *)
(***************************************************************************)
\* the name ends in one of the ignored extensions
EndsInIgnoredExtension(name) ==
    \E i \in 1..Len(FILE_EXTENSIONS_TO_IGNORE) :
        EndsWith(name, FILE_EXTENSIONS_TO_IGNORE[i])

KeepsName(name) == ~EndsInIgnoredExtension(name)

\* a and b hold the same elements with the same multiplicities: b is a
\* rearrangement of a
SameMultiset(a, b) ==
    /\ Len(a) = Len(b)
    /\ \E p \in [1..Len(a) -> 1..Len(a)] :
          /\ \A i, j \in 1..Len(a) : p[i] = p[j] => i = j
          /\ \A i \in 1..Len(a) : a[i] = b[p[i]]

\* C10: the validator reports a match if and only if the local list and the
\* remote listing with every name ending in an ignored extension removed are
\* equal as multisets.
C10_MatchIffMultisetsEqual ==
    verdict # "none" =>
        (verdict = "match" <=>
            SameMultiset(local_files, SelectSeq(repo_files, KeepsName)))

(***************************************************************************)
(* Properties of the inference run (specification SpecRun)                 *)
(***************************************************************************)
\* C8: in every execution of torchserve_run in which the start command was
\* invoked, stop_torchserve is invoked after it and before the process ends,
\* on every exit path and whatever stop_server and ts_cleanup are.
C8_StopInvokedOnEveryExitPath ==
    ts_pc = "ended" =>
        \A i \in 1..Len(ts_log) :
            ts_log[i] = "start" =>
                \E j \in (i + 1)..Len(ts_log) : ts_log[j] = "stop"

(***************************************************************************)
(* Properties of get_mar_name (specification SpecNamer)                    *)
(***************************************************************************)
\* model_name + '_' + the first 7 characters of repo_version
NameWithRevision(model_name, repo_version) ==
    model_name \o <<"_">> \o FirstSeven(repo_version)

\* C11: every call of get_mar_name returns exactly model_name when
\* is_custom_model is true, and model_name + '_' + the first 7 characters of
\* repo_version (all of it when it is shorter) otherwise; calls with the same
\* arguments return the same value, and for the same model_name and
\* repo_version the custom and the non-custom results differ.
C11_MarNameIsAPureFunction ==
    /\ \A i \in 1..Len(mar_names) :
          mar_names[i].mar_name =
              IF mar_names[i].is_custom_model
              THEN mar_args.model_name
              ELSE NameWithRevision(mar_args.model_name, mar_args.repo_version)
    /\ \A i, j \in 1..Len(mar_names) :
          (mar_names[i].is_custom_model = mar_names[j].is_custom_model)
              <=> (mar_names[i].mar_name = mar_names[j].mar_name)

\* C11, its case: a revision longer than 7 characters, named once as a
\* catalog model and once as a custom model
C11_Witness ==
    /\ Len(mar_args.repo_version) > 7
    /\ Len(mar_names) = 2
    /\ ~mar_names[1].is_custom_model
    /\ mar_names[2].is_custom_model
    /\ mar_names[1].mar_name # mar_names[2].mar_name

(***************************************************************************)
(* Properties of the resolution and of the checks of the generate run      *)
(* (specification Spec)                                                    *)
(***************************************************************************)
\* the repository a run asks the hub about: the catalog's for a catalog
\* model, the caller's otherwise
RequestedRepo ==
    IF InCatalog(params.model_name)
    THEN model_config[params.model_name[1]].repo_id
    ELSE params.repo_id

\* the revision a run asks the hub about: the caller's, else the catalog's,
\* else none (the hub's default branch)
RequestedRevision ==
    IF ~Falsy(params.repo_version) THEN params.repo_version
    ELSE IF InCatalog(params.model_name)
         THEN model_config[params.model_name[1]].repo_version
         ELSE None

\* the token a run has: --hf_token, else the HF_TOKEN environment variable
EffectiveToken == IF Falsy(params.hf_token) THEN HF_TOKEN ELSE params.hf_token

\* a catalog model, or a custom model with download requested
ValidatedPath == InCatalog(params.model_name) \/ ~params.skip_download

\* this run has downloaded nothing, staged nothing, archived nothing
NothingGenerated ==
    /\ ~download_called
    /\ tmp_dir = None
    /\ ~archiver.invoked
    /\ store = fs0.store
    /\ tmp_dirs = fs0.tmp_dirs

\* the output directory held, when the run started, the archive of another
\* revision of the repository with the same first 7 characters
CollidingArchive ==
    \E r \in HubRevisions(RequestedRepo) :
        /\ r # gen_model.repo_version
        /\ FirstSeven(r) = FirstSeven(gen_model.repo_version)
        /\ gen_model.mar_name = NameWithRevision(params.model_name, r)
        /\ MarFile(NameWithRevision(params.model_name, r)) \in DOMAIN fs0.store

HubReportsMissing ==
    \/ HubRevisions(RequestedRepo) = {}
    \/ RequestedRevision # None /\ RequestedRevision \notin HubRevisions(RequestedRepo)

\* C13: for catalog models and custom models with download requested, if the
\* hub reports that the requested revision or repository does not exist, the
\* run downloads nothing, creates no staging directory, never invokes the
\* archiver, produces no archive, and ends with exit code 1.
C13_UnknownRevisionStopsTheRun ==
    (ValidatedPath /\ HubReportsMissing) =>
        /\ NothingGenerated
        /\ pc # "done"
        /\ Ended => exit_code = 1

\* C13, its case: a catalog run asked for a revision the hub does not
\* list, and ended at the revision check.
C13_Witness ==
    /\ Ended
    /\ InCatalog(params.model_name)
    /\ params.repo_version = RevBad
    /\ HubReportsMissing
    /\ hub_called
    /\ exit_at = "validate_commit_info"

\* no token with --hf_token and none in HF_TOKEN, an empty one being none
NoTokenAvailable == Falsy(params.hf_token) /\ Falsy(HF_TOKEN)

\* C14: for catalog models and custom models with download requested, when
\* the resolved repository id begins with 'meta-llama' and no token is
\* available (an empty token counts as none), resolution ends with exit code
\* 1 before any hub call, download or archive generation.
C14_GatedWithoutTokenStopsBeforeHub ==
    (ValidatedPath /\ StartsWith(RequestedRepo, <<"meta-llama">>) /\ NoTokenAvailable) =>
        /\ ~hub_called
        /\ NothingGenerated
        /\ pc # "start" => (pc = "exited" /\ exit_code = 1)

\* C15: with skip-download and model_path an existing empty directory, no
\* staging directory and no archive is created and the run ends with exit
\* code 1, for catalog and for custom model names.
C15_EmptyModelPathStopsTheRun ==
    (params.skip_download /\ model_path = "dir" /\ fs0.model_files = {}) =>
        /\ tmp_dir = None
        /\ tmp_dirs = fs0.tmp_dirs
        /\ store = fs0.store
        /\ ~archiver.invoked
        /\ pc # "done"
        /\ Ended => exit_code = 1

\* C15, its case: a catalog run with skip-download reached create_mar and
\* ended there on the empty model_path.
C15_Witness ==
    /\ Ended
    /\ InCatalog(params.model_name)
    /\ params.skip_download
    /\ model_path = "dir"
    /\ fs0.model_files = {}
    /\ exit_at = "no_model_files"

\* a model name outside the catalog, skip-download, a model_path with files
\* in it, and no revision given
CustomSkipCase ==
    /\ ~InCatalog(params.model_name)
    /\ params.skip_download
    /\ model_path = "dir"
    /\ fs0.model_files # {}
    /\ Falsy(params.repo_version)

\* C16: for a model name not in the catalog with skip-download, a non-empty
\* model_path and no revision, resolution calls no hub, marks the model
\* custom, sets the revision to '1.0' and takes the default handler when
\* none is given; the archiver is given '1.0' as the version; a run that
\* returns has put "{model_name}.mar" in the output directory; and a run
\* fails only on the output directory, an archive already there, the
\* handler file or the archiver.
C16_CustomSkipDownloadDefaults ==
    CustomSkipCase =>
        /\ ~hub_called
        /\ pc # "start" =>
              /\ gen_model.is_custom_model
              /\ gen_model.repo_version = <<"1", ".", "0">>
              /\ gen_model.mar_name = params.model_name
              /\ gen_model.handler_path =
                     IF Falsy(params.handler_path) THEN <<"handler.py">>
                     ELSE params.handler_path
        /\ archiver.invoked => archiver.version = <<"1", ".", "0">>
        /\ pc = "done" =>
              /\ exit_code = 0
              /\ params.model_name \o <<".mar">> \in DOMAIN store
              /\ store[params.model_name \o <<".mar">>] = [by |-> run, complete |-> TRUE]
        /\ pc = "exited" =>
              exit_at \in {"mar_output", "check_if_mar_exists", "handler",
                           "archiver_failed", "mar_missing"}

\* C16, its case: such a run, with no handler given, has returned.
C16_Witness ==
    /\ CustomSkipCase
    /\ Falsy(params.handler_path)
    /\ pc = "done"
    /\ archiver.version = <<"1", ".", "0">>

\* a model name outside the catalog with download requested
CustomDownload == ~InCatalog(params.model_name) /\ ~params.skip_download

\* C17: for a model name not in the catalog with download requested, a
\* missing repository id ends the run with exit code 1 before any hub call
\* or file system write; with a repository id, the hub is called only after
\* the token check has passed and a download starts only after the hub has
\* listed the requested revision.
C17_CustomDownloadIsValidated ==
    CustomDownload =>
        IF Falsy(params.repo_id)
        THEN /\ ~hub_called
             /\ NothingGenerated
             /\ model_files = fs0.model_files
             /\ pc # "start" => (pc = "exited" /\ exit_code = 1)
        ELSE /\ hub_called =>
                  ~(StartsWith(params.repo_id, <<"meta-llama">>) /\ EffectiveToken = None)
             /\ download_called =>
                  HubListsCommits(params.repo_id, RequestedRevision, EffectiveToken)

\* C17, its case: a custom model of a gated repository, with a token, has
\* passed both checks and downloaded.
C17_Witness ==
    /\ CustomDownload
    /\ params.repo_id = LlamaRepo
    /\ EffectiveToken = Tok
    /\ hub_called
    /\ download_called

\* C18: whenever model_path or mar_output is not an existing directory,
\* run_script ends by raising SystemExit with code 1, never another
\* exception, downloads nothing and produces no archive.
C18_MissingDirectoryIsSystemExit ==
    (Ended /\ (model_path # "dir" \/ mar_output # "dir")) =>
        /\ raised = "SystemExit"
        /\ exit_code = 1
        /\ ~download_called
        /\ store = fs0.store

\* C19: when download is requested and model_path is a non-empty directory,
\* snapshot_download is never called, the contents of model_path stay as
\* they were, no archive is produced and the run ends with exit code 1.
C19_NonEmptyModelPathStopsDownload ==
    (~params.skip_download /\ model_path = "dir" /\ fs0.model_files # {}) =>
        /\ ~download_called
        /\ model_files = fs0.model_files
        /\ store = fs0.store
        /\ pc # "done"
        /\ Ended => exit_code = 1

\* C19, its case: a run has reached run_download and ended there on the
\* files it found in model_path.
C19_Witness ==
    /\ Ended
    /\ ~params.skip_download
    /\ fs0.model_files # {}
    /\ model_files = fs0.model_files
    /\ exit_at = "model_path_not_empty"

(***************************************************************************)
(* Properties of the health check (specification SpecRun)                  *)
(***************************************************************************)
\* the health check has reported ready before position i of the log
ReadyBefore(i) == \E j \in 1..(i - 1) : ts_log[j] = "health_ready"

\* C20: registration and inference proceed only after the health check has
\* reported every worker ready; a run whose health check never reported
\* ready ends as a failure, with the server stopped after the check.
C20_HealthCheckGatesRegistration ==
    /\ \A i \in 1..Len(ts_log) :
          ts_log[i] \in {"register", "infer"} => ReadyBefore(i)
    /\ (ts_pc = "ended" /\ \E i \in 1..Len(ts_log) : ts_log[i] = "health_not_ready"
            /\ ~ReadyBefore(Len(ts_log) + 1)) =>
          /\ ts_exit = 1
          /\ \E i \in 1..Len(ts_log) :
                /\ ts_log[i] = "health_not_ready"
                /\ \E j \in (i + 1)..Len(ts_log) : ts_log[j] = "stop"

(***************************************************************************)
(* Properties of the server start, registration and inference              *)
(* (specification SpecRun)                                                 *)
(***************************************************************************)
\* the start command returned a non-zero status
StartFailed == \E i \in 1..Len(ts_log) : ts_log[i] = "start_failed"

\* a health check, a registration or an inference request was sent
RequestSent ==
    \E i \in 1..Len(ts_log) :
        ts_log[i] \in {"health_ready", "health_not_ready", "register", "infer"}

\* C21: if the server start command returns a non-zero status, the run ends
\* with exit code 1 after stop_torchserve was attempted, and no health
\* check, registration or inference request is sent in that run.
C21_FailedStartEndsTheRun ==
    StartFailed =>
        /\ ~RequestSent
        /\ \E i \in 1..Len(ts_log) :
              /\ ts_log[i] = "start_failed"
              /\ \E j \in (i + 1)..Len(ts_log) : ts_log[j] = "stop"
        /\ ts_pc \in {"finally", "ended"}
        /\ ts_pc = "ended" => ts_exit = 1

\* a run has ended whose start command failed
C21_Witness ==
    /\ StartFailed
    /\ ts_pc = "ended"
    /\ ts_exit = 1

\* the registration request came back with HTTP 200 before position i
RegisteredBefore(i) ==
    \E j \in 1..(i - 2) : ts_log[j] = "register" /\ ts_log[j + 1] = "200"

\* position i of the log is a response that is not HTTP 200, or a missing one
FailedResponse(i) == ts_log[i] \in {"non200", "no_response"}

IsInfer(e) == e = "infer"

\* C22: inference requests are sent only after registration returned HTTP
\* 200; the input files are sent one at a time in listing order; at the
\* first response of registration or inference that is not 200, or is
\* missing, stop_torchserve is called and the run exits with code 1 without
\* sending any remaining input.
C22_RequestsInOrderUntilFirstFailure ==
    /\ \A i \in 1..Len(ts_log) : ts_log[i] = "infer" => RegisteredBefore(i)
    /\ Len(ts_sent) = Len(SelectSeq(ts_log, IsInfer))
    /\ Len(ts_sent) <= ts_fs.inputs
    /\ ts_sent = SubSeq(model_inputs(ts_fs.inputs), 1, Len(ts_sent))
    /\ \A i \in 1..Len(ts_log) :
          FailedResponse(i) =>
              /\ \A j \in (i + 1)..Len(ts_log) :
                    ts_log[j] \notin {"register", "infer"}
              /\ \E j \in (i + 1)..Len(ts_log) : ts_log[j] = "stop"
              /\ ts_pc \in {"finally", "ended"}
              /\ ts_pc = "ended" => ts_exit = 1

\* a run ended at a failed inference response with an input left unsent
C22_Witness ==
    /\ ts_pc = "ended"
    /\ ts_exit = 1
    /\ Len(ts_sent) = 1
    /\ ts_fs.inputs > 1
    /\ \E i \in 2..Len(ts_log) : ts_log[i - 1] = "infer" /\ FailedResponse(i)

(***************************************************************************)
(* Properties of unregister_model (specification SpecUnregister)           *)
(***************************************************************************)
\* an unregister request came back with a response that is not HTTP 200, or
\* with none
UnregisterFailed ==
    \E i \in 2..Len(ts_log) : ts_log[i - 1] = "unregister" /\ FailedResponse(i)

\* C23: a failed unregister is not fatal: unregister_model returns to its
\* caller and the process does not exit with a non-zero status because of it.
C23_FailedUnregisterIsNotFatal ==
    UnregisterFailed =>
        /\ ts_raised = ""
        /\ ts_exit \in {-1, 0}

(***************************************************************************)
(* Properties of cleanup and of the path checks (specification SpecRun)    *)
(***************************************************************************)
\* this step is a call of cleanup that calls stop_torchserve
CleanupStops ==
    /\ ts_pc \in {"start", "finally"}
    /\ ts_log' # ts_log

\* what this step adds to the log
Added == SubSeq(ts_log', Len(ts_log) + 1, Len(ts_log'))

FinalCleanup == ts_pc = "finally" /\ ts_pc' = "ended"

\* C37: cleanup(gen_folder, ts_stop, ts_cleanup) does nothing at all when
\* ts_stop is false, even if ts_cleanup is true; when ts_stop is true it
\* calls stop_torchserve and then deletes the logs folder whether or not the
\* stop succeeded, and it deletes the whole gen folder only when ts_cleanup
\* is true as well.
C37_CleanupActsOnlyUnderTsStop ==
    [][ /\ FinalCleanup =>
              IF ts_params.stop_server
              THEN /\ Len(Added) > 0
                   /\ Added[1] = "stop"
                   /\ gen_folder' # "logs"
                   /\ gen_folder' = IF ts_params.ts_cleanup
                                    THEN "absent"
                                    ELSE IF gen_folder = "logs"
                                         THEN "present"
                                         ELSE gen_folder
              ELSE /\ server' = server
                   /\ ts_log' = ts_log
                   /\ gen_folder' = gen_folder
        /\ (ts_pc = "start" /\ ts_pc' = "validate") =>
              /\ Len(Added) > 0
              /\ Added[1] = "stop"
              /\ gen_folder' = IF gen_folder = "logs" THEN "present"
                                                      ELSE gen_folder
      ]_vars

\* a run with ts_cleanup and without stop_server has ended: its server is
\* still up and its gen folder still holds the logs
C37_Witness ==
    /\ ts_pc = "ended"
    /\ ~ts_params.stop_server
    /\ ts_params.ts_cleanup
    /\ server = "up"
    /\ gen_folder = "logs"

\* {archive_id}.mar of the run: model_name and the first seven characters
\* of the revision asked for, or of the catalog's when none is; the model
\* name alone for a model the catalog does not have
ComputedArchive ==
    LET name == PyStr(ts_params.model_name)
    IN  IF InCatalog(name)
        THEN MarFile(name \o <<"_">> \o
                 FirstSeven(IF ts_params.repo_version = <<>>
                            THEN model_config[ts_params.model_name].repo_version
                            ELSE ts_params.repo_version))
        ELSE MarFile(name)

\* the model store, the archive or the input folder asked for is missing
PathMissing ==
    \/ ts_fs.model_store # "dir"
    \/ ComputedArchive \notin ts_fs.mars
    \/ ts_params.data # <<>> /\ ts_fs.data # "dir"

\* C25: if the model store directory, the computed archive file or a
\* supplied input data directory does not exist, the run exits with code 1
\* and the server start command is never invoked.
C25_MissingPathEndsBeforeStart ==
    (ts_pc \in {"start", "validate", "start_server", "register", "inference",
                "finally", "ended"} /\ PathMissing) =>
        /\ \A i \in 1..Len(ts_log) : ts_log[i] # "start"
        /\ ts_pc \in {"start", "validate", "finally", "ended"}
        /\ ts_pc = "ended" => ts_exit = 1

\* a run ended for a revision of gpt2 for which the store holds no archive
C25_Witness ==
    /\ ts_pc = "ended"
    /\ ts_exit = 1
    /\ ts_params.model_name = "gpt2"
    /\ ts_params.repo_version = RevBad
    /\ ts_fs.model_store = "dir"
    /\ ts_fs.mars = StoreArchives
    /\ ts_params.data = <<>>

(***************************************************************************)
(* Properties of the handler (specification SpecHandler)                   *)
(***************************************************************************)
\* the response request i of the batch is owed: the generated text for a
\* raw request; for a structured one its id and one output per row, in order
ResponseOwed(i) ==
    IF hd_batch[i].kind = "raw"
    THEN [text |-> Text(i, 1)]
    ELSE [id |-> hd_batch[i].id,
          outputs |-> [r \in 1..hd_batch[i].rows |-> Text(i, r)]]

\* C26: for any batch of raw requests, structured requests, or both mixed
\* in any order, postprocess returns exactly one response per request, in
\* request order: the generated text for a raw request, and for a structured
\* request an object with that request's id and one output per input row.
C26_OneResponsePerRequest ==
    hd_pc = "done" =>
        /\ Len(hd_responses) = Len(hd_batch)
        /\ \A i \in 1..Len(hd_batch) : hd_responses[i] = ResponseOwed(i)

\* C38: at the start of every preprocess call the handler's per-request row
\* counters (request_list) are zero for every batch index, after any sequence
\* of earlier batches, including a batch whose inference raised before
\* postprocess ran and a structured request with an empty inputs list; so
\* the grouping of one batch's results into responses never depends on
\* earlier batches.
C38_RowCountersAreZeroAtPreprocess ==
    hd_pc = "preprocess" =>
        \A k \in Keys : hd_request.request_list[k] = 0

(***************************************************************************)
(* Properties of the catalog resolution (specification Spec)               *)
(***************************************************************************)
\* the catalog entry of the model name asked for
CatalogEntry == model_config[params.model_name[1]]

\* C27: for a model name in the catalog, the resolved repository id is the
\* catalog's, the revision is the caller's when one is supplied and the
\* catalog default otherwise, the handler is the caller's when one is
\* supplied and the catalog's otherwise, and the model is not custom.
C27_CatalogModelResolution ==
    (pc \notin {"idle", "start"} /\ InCatalog(params.model_name)) =>
        /\ gen_model.repo_id = CatalogEntry.repo_id
        /\ gen_model.repo_version =
               IF Falsy(params.repo_version)
               THEN CatalogEntry.repo_version
               ELSE params.repo_version
        /\ gen_model.handler_path =
               IF Falsy(params.handler_path)
               THEN CatalogEntry.handler
               ELSE params.handler_path
        /\ ~gen_model.is_custom_model

\* a run of a catalog model succeeded with a repository id, a revision and
\* a handler of the caller's that all differ from the catalog's
C27_Witness ==
    /\ pc = "done"
    /\ params.model_name = <<"gpt2">>
    /\ params.repo_id = WrongRepo
    /\ params.repo_version = RevB
    /\ params.handler_path = <<"my_handler.py">>
    /\ gen_model.repo_id = Gpt2Repo

(***************************************************************************)
(* Properties of the progress monitor (specification Spec)                 *)
(***************************************************************************)
\* C28: generate_mars terminates together with its progress-monitor thread:
\* whether the archiver exits with status 0 or not, the stop event has been
\* set and the monitor loop has ended once generate_mars is left, so that
\* the thread keeps neither the main flow nor the process from ending.
C28_MonitorEndsWithGenerateMars ==
    pc \in {"move_mar", "rm_dir", "done", "exited"} => monitor # "running"

(***************************************************************************)
(* Properties of concurrent invocations (specification SpecConcurrent)     *)
(***************************************************************************)
\* C29: for any two concurrent invocations of create_mar on the same output
\* directory, for the same or for different archive ids, the staging
\* directories they use are distinct, each used by one invocation only.
C29_StagingDirectoriesAreDistinct ==
    \A p, q \in Procs :
        (p # q /\ cc_tmp_dir[p] # None /\ cc_tmp_dir[q] # None) =>
            cc_tmp_dir[p] # cc_tmp_dir[q]

\* the positions of the log at which process p did op
Did(p, op) == {i \in 1..Len(cc_log) : cc_log[i] = [p |-> p, op |-> op]}

\* both processes passed the existence check before either promoted
BothPassedBeforeAnyMove ==
    \A p \in Procs :
        /\ Did(p, "passed") # {}
        /\ \A i \in Did(p, "passed"), q \in Procs :
              \A j \in Did(q, "promoted") : i < j

\* the process that promoted last
LastPromoter == cc_log[CHOOSE i \in 1..Len(cc_log) :
                           /\ cc_log[i].op = "promoted"
                           /\ \A j \in (i + 1)..Len(cc_log) :
                                 cc_log[j].op # "promoted"].p

\* C30: when two concurrent invocations target the same archive_id and both
\* pass the existence check before either promotes, and both archivers end
\* with status 0, both invocations complete successfully and the output
\* directory ends with one file {archive_id}.mar that is the complete output
\* of the archiver run promoted last, never a mixture or a partial file.
C30_LastRenameWins ==
    ( /\ \A p \in Procs : cc_pc[p] \in {"done", "exited"}
      /\ \A p, q \in Procs : cc_gm[p].mar_name = cc_gm[q].mar_name
      /\ BothPassedBeforeAnyMove
      /\ \A p \in Procs : Did(p, "archived") # {} ) =>
        /\ \A p \in Procs : cc_exit[p] = 0
        /\ MarFile(cc_gm[1].mar_name) \in DOMAIN store
        /\ store[MarFile(cc_gm[1].mar_name)] =
               [by |-> {LastPromoter}, complete |-> TRUE]


(***************************************************************************)
(* Properties of the archive lookup (specification SpecLookup)              *)
(***************************************************************************)
\* generate.py stored an archive and torchserve_run.py computed its path
GeneratedAndLookedUp ==
    /\ lk_mar \notin {None, <<"exit">>}
    /\ lk_path # None

\* C31: for every model name, revision argument (given or omitted) and
\* catalog content, the archive path the run tool looks up (set_mar_filepath
\* after read_config_for_inference) equals the path at which the generate
\* tool stores the archive for the same model name and revision argument: an
\* archive just generated is found by the run tool called with the same
\* arguments.
C31_LookupFindsGeneratedArchive ==
    GeneratedAndLookedUp => lk_path = lk_mar

(***************************************************************************)
(* Properties of the ignore patterns (specification SpecIgnore)             *)
(***************************************************************************)
\* some file of S has the extension ext
HasFormat(S, ext) == \E f \in S : f[Len(f)] = ext

\* the files the repository lists
ListedFiles == {ig_listing[i] : i \in DOMAIN ig_listing}

\* the first of the preferred formats the repository holds, "" if none
SelectedFormat ==
    IF HasFormat(ListedFiles, ".safetensors") THEN ".safetensors"
    ELSE IF HasFormat(ListedFiles, ".bin") THEN ".bin"
    ELSE ""

\* the extensions of the other model formats
AlternateFormats == {".pt", ".h5", ".gguf", ".msgpack", ".tflite", ".ot", ".onnx"}

\* C32: get_ignore_pattern_list keeps exactly one weight format: it selects
\* the first of ('.safetensors', '.bin') that occurs among the repository's
\* file extensions and returns the patterns of every other preferred format
\* plus all patterns of the other formats, never the pattern of the selected
\* format; so whenever the repository holds both preferred formats only one
\* of them is downloaded, and the alternate formats are always excluded from
\* download.
C32_OneWeightFormatIsKept ==
    ig_pc = "downloaded" =>
        /\ SelectedFormat # "" =>
              {ig_patterns[k] : k \in DOMAIN ig_patterns} =
                  {<<"*", e>> : e \in ({".safetensors", ".bin"} \ {SelectedFormat})
                                          \cup AlternateFormats}
        /\ (HasFormat(ListedFiles, ".safetensors") /\ HasFormat(ListedFiles, ".bin")) =>
              (HasFormat(ig_files, ".safetensors") # HasFormat(ig_files, ".bin"))
        /\ \A e \in AlternateFormats : ~HasFormat(ig_files, e)

(***************************************************************************)
(* Properties of a download followed by a skip-download run                 *)
(* (specification SpecRoundTrip)                                            *)
(***************************************************************************)
\* the download leaves the remote file out
IgnoredByDownload(name) ==
    \E k \in DOMAIN FILE_EXTENSIONS_TO_IGNORE :
        FnMatch(name, dl_get_ignore_pattern_list(FILE_EXTENSIONS_TO_IGNORE)[k])

\* C33: a model directory populated by a successful download run passes the
\* file-set validation of a later skip-download run for the same repository
\* and revision: the ignore patterns used during download and the extension
\* filter applied to the remote listing exclude exactly the same files, for
\* every remote file name.
C33_DownloadedDirectoryPassesValidation ==
    (rt_downloaded /\ verdict # "none") =>
        /\ verdict = "match"
        /\ \A i \in DOMAIN repo_files :
              IgnoredByDownload(repo_files[i])
                  <=> SearchPattern(FILE_EXTENSIONS_TO_IGNORE, repo_files[i])

(***************************************************************************)
(* Properties of set_config_properties (specification SpecConfig)           *)
(***************************************************************************)
\* the value model_config.json configures for the key, `default` when unset
Configured(key, default) ==
    IF cf_model.in_catalog /\ cf_model.has_params /\ key \in DOMAIN cf_model.params
    THEN cf_model.params[key]
    ELSE default

\* C34: in the registration block that set_config_properties appends to the
\* per-run copy of the server config, minWorkers and maxWorkers equal the
\* configured initial_workers (1 when unset), batchSize the configured
\* batch_size (1 when unset), maxBatchDelay the configured max_batch_delay
\* (1 when unset) and responseTimeout the configured response_timeout (120
\* when unset), each defaulting independently of the others, including for a
\* model name that is not in the catalog; the template config file itself is
\* not modified.
C34_RegistrationBlockHoldsConfiguredValues ==
    /\ cf_template = TemplateLines
    /\ cf_config.exists =>
          /\ cf_config.lines = TemplateLines
          /\ Len(cf_config.blocks) = 1
          /\ cf_config.blocks[1] =
                [ minWorkers |-> Configured("initial_workers", 1),
                  maxWorkers |-> Configured("initial_workers", 1),
                  batchSize |-> Configured("batch_size", 1),
                  maxBatchDelay |-> Configured("max_batch_delay", 1),
                  responseTimeout |-> Configured("response_timeout", 120) ]

(***************************************************************************)
(* Properties of the data model objects (specification SpecObjects)         *)
(***************************************************************************)
\* C35: two GenerateDataModel objects built in the same process hold
\* independent state: changing a repo_info or mar_utils field through one
\* object never changes the value read through the other, and the same holds
\* for the ts_data of two InferenceDataModel objects.  Stated as: what is
\* read through an object is what was last written through it (what it held
\* when it was built, if nothing was).
C35_DataModelObjectsAreIndependent ==
    \A i \in DOMAIN ob_objects :
        \A attr \in ClassAttrs[ob_objects[i].class] :
            ob_heap[lookup(ob_objects[i], attr)] = ob_written[i][attr]

(***************************************************************************)
(* Properties of the progress thread (specification SpecMonitor)            *)
(***************************************************************************)
\* C36: monitor_marfile_size completes without error for every interleaving
\* of the stop event with its loop: also when the stop event is set before
\* the first loop iteration and when the archive file does not exist at the
\* moment monitoring stops, it never reads the current file size before
\* assigning it and never ends with an unhandled file-not-found error.
C36_MonitorEndsWithoutError ==
    /\ mn_error = ""
    /\ mn_pc # "died"

====
